---- MODULE Spec2Model ----
(***************************************************************************)
(* Linearization validity checker of loopy (loopy/schedule/checker).       *)
(*                                                                         *)
(* The model covers the pairwise schedule builder (LexSchedule.__init__    *)
(* and pad_lex_pts_with_zeros), the construction of the two schedule maps, *)
(* the lexicographic order map, the statement instance ordering (SIO), the *)
(* dependency constraint map, the space alignment and the orchestrating    *)
(* loop of check_linearization_validity.                                   *)
(*                                                                         *)
(* isl maps are modelled extensionally: a map is a record holding its      *)
(* dimension names and, for every value n of the kernel's size parameter   *)
(* (every iname ranges over 0 <= v < n), the finite set of pairs it holds. *)
(***************************************************************************)
EXTENDS Integers, Sequences, FiniteSets, TLC

\* ------------------------------------------------------------------ bounds
\* longest generated linearization (number of items)
MaxLinLen == 5
\* number of items besides the two target statements and the loops
MaxFillers == 1
\* longest dependency list handed to check_linearization_validity
MaxDeps == 2
\* longest generated linearization the whole check is run on
MaxCheckLinLen == 6
\* largest value of the kernel's size parameter n
MaxN == 2
\* largest dimensionality of the lex order map checked on its own
MaxLexDims == 3
\* largest integer in a tuple handed to the lex order map on its own
MaxLexVal == 1
\* largest number of zeros appended to a pair of integer lex points
MaxPad == 2
\* largest length of the integer lex points that are padded on their own
MaxPadDims == 2
\* the kernels of the ordering tests: largest ij_start, largest number of
\* iterations of i and j, largest lg_end; VecISize and VecLSize stand for
\* the fixed extents 4 and 32 of the vec kernel
MaxIjStart == 2
MaxIjLen == 2
MaxLgEnd == 2
VecISize == 2
VecLSize == 2
\* longest list of dimension names of a map handed to the alignment helpers
MaxNames == 2
\* largest required_length handed to get_orderings_of_length_n
MaxRequiredLength == 3

\* ------------------------------------------------------------ kernel names
Inames == {"i", "j", "k"}
\* sorted(list(inames)): the one order in which iname sets are listed
InamesSorted == <<"i", "j", "k">>
\* python's None for an instruction id
None == "None"
\* the two statements dependencies are declared between
TargetIds == {"a", "b"}
\* statement ids that are barrier instructions may occur as Barrier items
BarrierIds == {"b"}

\* ----------------------------------------------------- linearization items
EnterLoop(iname) == [type |-> "EnterLoop", name |-> iname]
LeaveLoop(iname) == [type |-> "LeaveLoop", name |-> iname]
RunInstruction(insn_id) == [type |-> "RunInstruction", name |-> insn_id]
Barrier(originating_insn_id) == [type |-> "Barrier", name |-> originating_insn_id]
CallKernel == [type |-> "CallKernel", name |-> ""]

FillerItems == {RunInstruction("c"), Barrier(None), CallKernel}

\* the items that can stand for statement s in a linearization
StmtItems(s) ==
    {RunInstruction(s)} \cup (IF s \in BarrierIds THEN {Barrier(s)} ELSE {})

Last(s) == s[Len(s)]
ButLast(s) == SubSeq(s, 1, Len(s) - 1)
Range(s) == {s[x] : x \in DOMAIN s}

\* --------------------------------------------- generator of linearizations
\* A partial linearization: the items so far, the stack of open loops, and
\* for every open tier whether its body already holds an item.
PartialStart == [seq |-> <<>>, stack |-> <<>>, body |-> <<FALSE>>]

NumFillers(seq) == Cardinality({x \in DOMAIN seq : seq[x] \in FillerItems})

NoFillers == {}

HasStmt(seq, s) == \E x \in DOMAIN seq : seq[x] \in StmtItems(s)

MarkBody(body) == [body EXCEPT ![Len(body)] = TRUE]

\* every way to extend the partial linearization p by one item such that it
\* can still be closed within maxlen items
Extensions(p, maxlen, fillers) ==
    LET room == maxlen - Len(p.seq) - Len(p.stack)
        stmts == IF room >= 1
                 THEN {[seq |-> Append(p.seq, it), stack |-> p.stack,
                        body |-> MarkBody(p.body)] :
                       it \in UNION {IF HasStmt(p.seq, s) THEN {} ELSE StmtItems(s)
                                     : s \in TargetIds}}
                 ELSE {}
        others == IF room >= 1 /\ NumFillers(p.seq) < MaxFillers
                  THEN {[seq |-> Append(p.seq, it), stack |-> p.stack,
                         body |-> MarkBody(p.body)] : it \in fillers}
                  ELSE {}
        enters == IF room >= 3
                  THEN {[seq |-> Append(p.seq, EnterLoop(v)),
                         stack |-> Append(p.stack, v),
                         body |-> Append(MarkBody(p.body), FALSE)] :
                        v \in Inames \ Range(p.stack)}
                  ELSE {}
        leaves == IF Len(p.stack) > 0 /\ Last(p.body)
                  THEN {[seq |-> Append(p.seq, LeaveLoop(Last(p.stack))),
                         stack |-> ButLast(p.stack),
                         body |-> ButLast(p.body)]}
                  ELSE {}
    IN stmts \cup others \cup enters \cup leaves

RECURSIVE PartialLins(_, _, _)
PartialLins(steps, maxlen, fillers) ==
    IF steps = 0 THEN {PartialStart}
    ELSE LET prev == PartialLins(steps - 1, maxlen, fillers)
         IN prev \cup UNION {Extensions(p, maxlen, fillers) : p \in prev}

\* all closed, well-nested linearizations of at most maxlen items
WellNestedLins(maxlen, fillers) ==
    {p.seq : p \in {q \in PartialLins(maxlen, maxlen, fillers) :
                       Len(q.stack) = 0}}

GeneratedLins == WellNestedLins(MaxLinLen, FillerItems)

\* --------------------------------------------------------------- variables
VARIABLES
    pc,                     \* position of the program
    linearization_items,    \* the linearization under test
    conc_inames,            \* inames of the kernel that carry a ConcurrentTag
    loop_priority,          \* knl.loop_priority: set of tuples of inames
    statement_pair_dep_sets,   \* the dependency list
    dep_idx,                \* position of the loop over the dependency list
    before_insn_id,         \* arguments and locals of LexSchedule.__init__
    after_insn_id,
    loops_to_ignore,
    item_idx,
    next_insn_lex_pt,
    stmt_added_since_prev_block_at_tier,
    next_sid,
    stmt_instance_before,
    stmt_instance_after,
    sio,                    \* the last statement instance ordering built
    aligned_constraint_map, \* the last aligned constraint map built
    linearization_is_valid,
    output,                 \* indices of the dependencies a failure was printed for
    satisfied,              \* per dependency checked: was it found satisfied
    result,                 \* the value returned, once returned
    error,                  \* the exception raised, if any
    call_args,              \* arguments of a helper function called on its own
    call_result             \* and what the call returned

kernel_vars == <<linearization_items, conc_inames, loop_priority,
                 statement_pair_dep_sets>>
walk_vars == <<before_insn_id, after_insn_id, loops_to_ignore, item_idx,
               next_insn_lex_pt, stmt_added_since_prev_block_at_tier, next_sid,
               stmt_instance_before, stmt_instance_after>>
check_vars == <<dep_idx, sio, aligned_constraint_map, linearization_is_valid,
                output, satisfied, result>>
pure_vars == <<call_args, call_result>>
vars == <<pc, kernel_vars, walk_vars, check_vars, error, pure_vars>>

\* ---------------------------------------------------------------- lex points
\* An entry of a lex point is a literal integer or the name of an iname.
LexInt(n) == [iname |-> "", val |-> n]
LexVar(v) == [iname |-> v, val |-> 0]
IsLexInt(e) == e.iname = ""

\* variant: every statement is given the index 0
LexScheduleStatementInstance_ZeroId(insn_id, int_id, lex_pt) ==
    [insn_id |-> insn_id, int_id |-> 0, lex_pt |-> lex_pt]

\* LexScheduleStatementInstance(LexScheduleStatement(insn_id, int_id), lex_pt)
LexScheduleStatementInstance(insn_id, int_id, lex_pt) ==
    [insn_id |-> insn_id, int_id |-> int_id, lex_pt |-> lex_pt]
\* self.stmt_instance_before = None
NoInstance == [insn_id |-> None, int_id |-> -1, lex_pt |-> <<>>]

\* variant: the last entry is left as it is
IncrLast_Stuck(pt) == pt

\* next_insn_lex_pt[-1] = next_insn_lex_pt[-1]+1
IncrLast(pt) == [pt EXCEPT ![Len(pt)] = LexInt(pt[Len(pt)].val + 1)]

get_insn_id_from_linearization_item(linearization_item) ==
    linearization_item.name

\* variant: no EnterLoop item is found
get_EnterLoop_inames_None(items) == {}

get_EnterLoop_inames(items) ==
    {items[x].name : x \in {y \in DOMAIN items : items[y].type = "EnterLoop"}}

\* ------------------------------------------------ pairwise schedule builder
\* variant: the lex point, the flags and the statement counter are those the
\* previous build left
StartWalk_KeepLocals(insn_before, insn_after) ==
    /\ before_insn_id' = insn_before
    /\ after_insn_id' = insn_after
    /\ loops_to_ignore' = conc_inames \cap get_EnterLoop_inames(linearization_items)
    /\ item_idx' = 1
    /\ UNCHANGED <<next_insn_lex_pt, stmt_added_since_prev_block_at_tier,
                   next_sid>>
    /\ stmt_instance_before' = NoInstance
    /\ stmt_instance_after' = NoInstance
    /\ pc' = IF Len(linearization_items) = 0 THEN "pad" ELSE "walk"

\* get_schedule_for_statement_pair and the first lines of
\* LexSchedule.__init__: the walk starts at the first item.
StartWalk(insn_before, insn_after) ==
    /\ before_insn_id' = insn_before
    /\ after_insn_id' = insn_after
    /\ loops_to_ignore' = conc_inames \cap get_EnterLoop_inames(linearization_items)
    /\ item_idx' = 1
    /\ next_insn_lex_pt' = <<LexInt(0)>>
    /\ stmt_added_since_prev_block_at_tier' = <<FALSE>>
    /\ next_sid' = 0
    /\ stmt_instance_before' = NoInstance
    /\ stmt_instance_after' = NoInstance
    /\ pc' = IF Len(linearization_items) = 0 THEN "pad" ELSE "walk"

\* the end of one iteration of the loop over the items: break once both
\* statements are recorded, leave the loop after the last item
EndOfIteration(inst_before, inst_after) ==
    /\ pc' = IF (inst_before # NoInstance /\ inst_after # NoInstance)
                \/ item_idx = Len(linearization_items)
             THEN "pad" ELSE "walk"
    /\ item_idx' = item_idx + 1

\* "continue": the next item, without the test for the break
Continue ==
    /\ pc' = IF item_idx = Len(linearization_items) THEN "pad" ELSE "walk"
    /\ item_idx' = item_idx + 1

AtItem(type) ==
    /\ pc = "walk"
    /\ item_idx \in DOMAIN linearization_items
    /\ linearization_items[item_idx].type = type

\* variant: the block is never closed
CloseBlock_NoIncr(pt, added) == [pt |-> pt, added |-> added]

\* close the code block of the current tier if a statement was added to it
CloseBlock(pt, added) ==
    IF Last(added)
    THEN [pt |-> IncrLast(pt), added |-> [added EXCEPT ![Len(added)] = FALSE]]
    ELSE [pt |-> pt, added |-> added]

WalkEnterLoop ==
    /\ AtItem("EnterLoop")
    /\ LET iname == linearization_items[item_idx].name
           closed == CloseBlock(next_insn_lex_pt,
                                stmt_added_since_prev_block_at_tier)
       IN IF iname \in loops_to_ignore
          THEN /\ Continue
               /\ UNCHANGED <<next_insn_lex_pt,
                              stmt_added_since_prev_block_at_tier>>
          ELSE /\ next_insn_lex_pt' =
                      closed.pt \o <<LexVar(iname), LexInt(0)>>
               /\ stmt_added_since_prev_block_at_tier' =
                      Append(closed.added, FALSE)
               /\ EndOfIteration(stmt_instance_before, stmt_instance_after)
    /\ UNCHANGED <<before_insn_id, after_insn_id, loops_to_ignore, next_sid,
                   stmt_instance_before, stmt_instance_after>>
    /\ UNCHANGED <<kernel_vars, pure_vars, check_vars, error>>

\* variant: only the block counter is popped
PopLoop_CounterOnly(pt) == SubSeq(pt, 1, Len(pt) - 1)

\* next_insn_lex_pt.pop() twice: the block counter and the loop variable
PopLoop(pt) == SubSeq(pt, 1, Len(pt) - 2)

WalkLeaveLoop ==
    /\ AtItem("LeaveLoop")
    /\ LET iname == linearization_items[item_idx].name
           popped == PopLoop(next_insn_lex_pt)
           closed == CloseBlock(popped,
                                ButLast(stmt_added_since_prev_block_at_tier))
       IN IF iname \in loops_to_ignore
          THEN /\ Continue
               /\ UNCHANGED <<next_insn_lex_pt,
                              stmt_added_since_prev_block_at_tier>>
          ELSE /\ next_insn_lex_pt' = closed.pt
               /\ stmt_added_since_prev_block_at_tier' = closed.added
               /\ EndOfIteration(stmt_instance_before, stmt_instance_after)
    /\ UNCHANGED <<before_insn_id, after_insn_id, loops_to_ignore, next_sid,
                   stmt_instance_before, stmt_instance_after>>
    /\ UNCHANGED <<kernel_vars, pure_vars, check_vars, error>>

\* variant: every statement with an id is taken for the target
MatchesTarget_Always(lp_insn_id, target_insn_id) == TRUE

\* lp_insn_id == before_insn_id, lp_insn_id == after_insn_id
MatchesTarget(lp_insn_id, target_insn_id) == lp_insn_id = target_insn_id

\* the branch for RunInstruction and Barrier items
WalkStatement(type) ==
    /\ AtItem(type)
    /\ LET lp_insn_id ==
               get_insn_id_from_linearization_item(linearization_items[item_idx])
           is_before == MatchesTarget(lp_insn_id, before_insn_id)
           is_after == MatchesTarget(lp_insn_id, after_insn_id)
           stmt_added == is_before \/ is_after
           recorded == LexScheduleStatementInstance(
                           lp_insn_id, next_sid, next_insn_lex_pt)
           inst_before == IF is_before THEN recorded ELSE stmt_instance_before
           inst_after == IF is_after THEN recorded ELSE stmt_instance_after
       IN IF lp_insn_id = None
          THEN /\ Continue
               /\ UNCHANGED <<next_insn_lex_pt, next_sid,
                              stmt_added_since_prev_block_at_tier,
                              stmt_instance_before, stmt_instance_after>>
          ELSE /\ stmt_instance_before' = inst_before
               /\ stmt_instance_after' = inst_after
               /\ IF stmt_added
                  THEN /\ next_insn_lex_pt' = IncrLast(next_insn_lex_pt)
                       /\ next_sid' = next_sid + 1
                       /\ stmt_added_since_prev_block_at_tier' =
                              [x \in DOMAIN stmt_added_since_prev_block_at_tier
                                   |-> TRUE]
                  ELSE UNCHANGED <<next_insn_lex_pt, next_sid,
                                   stmt_added_since_prev_block_at_tier>>
               /\ EndOfIteration(inst_before, inst_after)
    /\ UNCHANGED <<before_insn_id, after_insn_id, loops_to_ignore>>
    /\ UNCHANGED <<kernel_vars, pure_vars, check_vars, error>>

WalkRunInstruction == WalkStatement("RunInstruction")

WalkBarrier == WalkStatement("Barrier")

\* variant: an item of another kind ends the walk with an error
WalkOtherItem_Raise ==
    /\ pc = "walk"
    /\ item_idx \in DOMAIN linearization_items
    /\ linearization_items[item_idx].type \notin
           {"EnterLoop", "LeaveLoop", "RunInstruction", "Barrier"}
    /\ pc' = "raised"
    /\ error' = "NotImplementedError"
    /\ UNCHANGED <<walk_vars, kernel_vars, pure_vars, check_vars>>

\* any other kind of item: "else: pass"
WalkOtherItem ==
    /\ pc = "walk"
    /\ item_idx \in DOMAIN linearization_items
    /\ linearization_items[item_idx].type \notin
           {"EnterLoop", "LeaveLoop", "RunInstruction", "Barrier"}
    /\ EndOfIteration(stmt_instance_before, stmt_instance_after)
    /\ UNCHANGED <<before_insn_id, after_insn_id, loops_to_ignore,
                   next_insn_lex_pt, stmt_added_since_prev_block_at_tier,
                   next_sid, stmt_instance_before, stmt_instance_after>>
    /\ UNCHANGED <<kernel_vars, pure_vars, check_vars, error>>

max_lex_dims(inst_before, inst_after) ==
    IF Len(inst_before.lex_pt) >= Len(inst_after.lex_pt)
    THEN Len(inst_before.lex_pt) ELSE Len(inst_after.lex_pt)

Zeros(n) == [x \in 1..n |-> LexInt(0)]

\* variant: the zeros are put in front of the recorded entries
_pad_lex_pt_with_zeros_InFront(stmt_inst, length) ==
    [stmt_inst EXCEPT !.lex_pt = Zeros(length - Len(stmt_inst.lex_pt))
                                   \o stmt_inst.lex_pt]

\* variant: the point is left at its recorded length
_pad_lex_pt_with_zeros_NoPad(stmt_inst, length) == stmt_inst

_pad_lex_pt_with_zeros(stmt_inst, length) ==
    [stmt_inst EXCEPT !.lex_pt = stmt_inst.lex_pt
                                   \o Zeros(length - Len(stmt_inst.lex_pt))]

\* self.pad_lex_pts_with_zeros(), the last statement of LexSchedule.__init__;
\* max_lex_dims reads .lex_pt of both instances, which raises AttributeError
\* on a statement that was never recorded (None)
pad_lex_pts_with_zeros ==
    /\ pc = "pad"
    /\ IF stmt_instance_before = NoInstance \/ stmt_instance_after = NoInstance
       THEN /\ pc' = "raised"
            /\ error' = "AttributeError"
            /\ UNCHANGED <<stmt_instance_before, stmt_instance_after>>
       ELSE LET max_lex_dim ==
                    max_lex_dims(stmt_instance_before, stmt_instance_after)
            IN /\ stmt_instance_before' =
                      _pad_lex_pt_with_zeros(stmt_instance_before, max_lex_dim)
               /\ stmt_instance_after' =
                      _pad_lex_pt_with_zeros(stmt_instance_after, max_lex_dim)
               /\ pc' = "built"
               /\ UNCHANGED error
    /\ UNCHANGED <<before_insn_id, after_insn_id, loops_to_ignore, item_idx,
                   next_insn_lex_pt, stmt_added_since_prev_block_at_tier,
                   next_sid>>
    /\ UNCHANGED <<kernel_vars, pure_vars, check_vars>>

\* ------------------------------------------------------------------ kernel
\* the stack of loops open before item number pos of the linearization
RECURSIVE OpenLoops(_, _)
OpenLoops(items, pos) ==
    IF pos <= 1 THEN <<>>
    ELSE LET before == OpenLoops(items, pos - 1)
             it == items[pos - 1]
         IN IF it.type = "EnterLoop" THEN Append(before, it.name)
            ELSE IF it.type = "LeaveLoop" THEN ButLast(before)
            ELSE before

\* the positions of the items that carry instruction id insn_id
ItemsOf(items, insn_id) ==
    {x \in DOMAIN items : /\ items[x].type \in {"RunInstruction", "Barrier"}
                          /\ items[x].name = insn_id}

SortedInames(S) == SelectSeq(InamesSorted, LAMBDA v : v \in S)

\* knl.id_to_insn[insn_id].within_inames, in sorted order: the loops that
\* enclose the statement
within_inames(items, insn_id) ==
    IF ItemsOf(items, insn_id) = {} THEN <<>>
    ELSE SortedInames(Range(OpenLoops(items,
                                      CHOOSE x \in ItemsOf(items, insn_id) : TRUE)))

\* variant: the upper bound n is part of the domain
get_inames_domain_Inclusive(inames_ordered, n) ==
    [1..Len(inames_ordered) -> 0..n]

\* knl.get_inames_domain(inames) for parameter value n: 0 <= v < n for
\* every iname v
get_inames_domain(inames_ordered, n) ==
    [1..Len(inames_ordered) -> 0..(n - 1)]

\* the kernel declares the nesting of the loops of its linearization:
\* a tuple (outer, inner) for every loop entered inside another one
NestPairs(items) ==
    UNION {{<<OpenLoops(items, x)[y], items[x].name>> :
            y \in DOMAIN OpenLoops(items, x)} :
           x \in {z \in DOMAIN items : items[z].type = "EnterLoop"}}

\* ---------------------------------------------------------------- isl maps
\* names of the dimensions
statement_var_name == "statement"
lex_var_prefix == "l"
BEFORE_MARK == "'"

append_marker_to_strings(strings) ==
    [x \in DOMAIN strings |-> strings[x] \o BEFORE_MARK]

IndexOf(seq, e) == CHOOSE x \in DOMAIN seq : seq[x] = e

ParamsOf(inames_ordered) == IF Len(inames_ordered) = 0 THEN {} ELSE {"n"}

\* the integer point a lex point stands for at the statement instance
\* in_tuple (int_id followed by the values of dom_inames_ordered)
LexValue(lex_pt, dom_inames_ordered, in_tuple) ==
    [x \in DOMAIN lex_pt |->
        IF IsLexInt(lex_pt[x]) THEN lex_pt[x].val
        ELSE in_tuple[1 + IndexOf(dom_inames_ordered, lex_pt[x].iname)]]

_get_isl_map_for_stmt_inst(stmt_inst, dom_inames_ordered, out_names_sched) ==
    [in_names |-> <<statement_var_name>> \o dom_inames_ordered,
     out_names |-> out_names_sched,
     params |-> ParamsOf(dom_inames_ordered),
     rel |-> [n \in 0..MaxN |->
                {<<<<stmt_inst.int_id>> \o v,
                   LexValue(stmt_inst.lex_pt, dom_inames_ordered,
                            <<stmt_inst.int_id>> \o v)>> :
                 v \in get_inames_domain(dom_inames_ordered, n)}]]

get_lex_var_names(inst_before, inst_after) ==
    [x \in 1..max_lex_dims(inst_before, inst_after) |->
        lex_var_prefix \o ToString(x - 1)]

\* sched_builder.build_maps(knl): the domains are those of the kernel
create_isl_maps(inst_before, inst_after, items) ==
    LET out_names_sched == get_lex_var_names(inst_before, inst_after)
    IN <<_get_isl_map_for_stmt_inst(
             inst_before, within_inames(items, inst_before.insn_id),
             out_names_sched),
         _get_isl_map_for_stmt_inst(
             inst_after, within_inames(items, inst_after.insn_id),
             out_names_sched)>>

\* clause k of the lex order: equal on dimensions 1..k-1, less on dimension k
LexClause(k, p, q) ==
    /\ \A x \in 1..(k - 1) : p[x] = q[x]
    /\ p[k] < q[k]

\* the lex order map is kept as its list of clauses
create_lex_order_map(n_dims, before_names) ==
    [in_names |-> append_marker_to_strings(before_names),
     out_names |-> before_names,
     clauses |-> 1..n_dims]

InLexOrderMap(lex_map, p, q) ==
    \E k \in lex_map.clauses : LexClause(k, p, q)

\* variant: the last lex dimension is left out of the order
get_lex_order_map_for_sched_space_DropDim(inst_before, inst_after) ==
    create_lex_order_map(max_lex_dims(inst_before, inst_after) - 1,
                         get_lex_var_names(inst_before, inst_after))

\* variant: the order looks at the first lex dimension only
get_lex_order_map_for_sched_space_FirstDim(inst_before, inst_after) ==
    create_lex_order_map(1, get_lex_var_names(inst_before, inst_after))

get_lex_order_map_for_sched_space(inst_before, inst_after) ==
    create_lex_order_map(max_lex_dims(inst_before, inst_after),
                         get_lex_var_names(inst_before, inst_after))

\* sched_before, then the lex order, then the inverse of sched_after
get_statement_ordering_map(sched_map_before, sched_map_after, lex_map) ==
    [in_names |-> append_marker_to_strings(sched_map_before.in_names),
     out_names |-> sched_map_after.in_names,
     params |-> sched_map_before.params \cup sched_map_after.params,
     rel |-> [n \in 0..MaxN |->
                {<<xp[1], yq[1]>> :
                 <<xp, yq>> \in
                    {z \in sched_map_before.rel[n] \X sched_map_after.rel[n] :
                        InLexOrderMap(lex_map, z[1][2], z[2][2])}}]]

\* ------------------------------------------------------- orderings (utils)
\* _generate_orderings_starting_w_prefix with return_first_found=False: the
\* orderings the call adds to the set it is handed
RECURSIVE _generate_orderings_starting_w_prefix(_, _, _)
_generate_orderings_starting_w_prefix(allowed_after_dict, required_length, start_prefix) ==
    LET next_items ==
            IF Len(start_prefix) > 0
            THEN allowed_after_dict[Last(start_prefix)] \ Range(start_prefix)
            ELSE DOMAIN allowed_after_dict
        added ==
            IF required_length # 0
            THEN IF Len(start_prefix) = required_length
                 THEN {start_prefix} ELSE {}
            ELSE {start_prefix}
    IN added \cup UNION {_generate_orderings_starting_w_prefix(
                             allowed_after_dict, required_length,
                             Append(start_prefix, next_item)) :
                         next_item \in next_items}

\* variant: every ordering is returned innermost first
get_orderings_of_length_n_Reversed(allowed_after_dict, required_length) ==
    {[x \in DOMAIN o |-> o[Len(o) + 1 - x]] :
     o \in _generate_orderings_starting_w_prefix(
               allowed_after_dict, required_length, <<>>)}

get_orderings_of_length_n(allowed_after_dict, required_length) ==
    _generate_orderings_starting_w_prefix(
        allowed_after_dict, required_length, <<>>)

\* --------------------------------------------------- dependency constraint
StatementPairDependencySet(insn_before, inames_before, insn_after, inames_after, deps) ==
    [statement_before |-> [insn_id |-> insn_before,
                           within_inames |-> inames_before],
     statement_after |-> [insn_id |-> insn_after,
                          within_inames |-> inames_after],
     deps |-> deps]

DependencyType == {"SAME", "PRIOR"}

\* the inames of S that the declared priorities allow after v
AllowedAfter(S, priority) ==
    [v \in S |->
        {w \in S : \E t \in priority :
            \E x, y \in DOMAIN t : x < y /\ t[x] = v /\ t[y] = w}]

\* the orders of S the declared priorities determine
PriorityOrders(S, priority) ==
    IF Cardinality(S) <= 1 THEN {SortedInames(S)}
    ELSE get_orderings_of_length_n(AllowedAfter(S, priority), Cardinality(S))

ValueOf(names, tuple, v) == tuple[1 + IndexOf(names, v)]

\* SAME(S): equal values of every iname of S
SameHolds(S, names_before, x, names_after, y) ==
    \A v \in S : ValueOf(names_before, x, v) = ValueOf(names_after, y, v)

\* PRIOR(S): the values of S, in the order of the priorities, are
\* lexicographically earlier in the instance before
PriorHolds(order, names_before, x, names_after, y) ==
    \E k \in DOMAIN order :
        /\ \A j \in 1..(k - 1) :
               ValueOf(names_before, x, order[j]) = ValueOf(names_after, y, order[j])
        /\ ValueOf(names_before, x, order[k]) < ValueOf(names_after, y, order[k])

DepHolds(d, priority, names_before, x, names_after, y) ==
    IF d.dep_type = "SAME"
    THEN SameHolds(d.inames, names_before, x, names_after, y)
    ELSE PriorHolds(CHOOSE o \in PriorityOrders(d.inames, priority) : TRUE,
                    names_before, x, names_after, y)

\* the declared priorities do not determine one order of the inames of a
\* PRIOR dependency
PriorityInconsistent(dep_set, priority) ==
    \E d \in dep_set.deps :
        /\ d.dep_type = "PRIOR"
        /\ Cardinality(PriorityOrders(d.inames, priority)) # 1

create_dependency_constraint(dep_set, priority) ==
    LET names_before == dep_set.statement_before.within_inames
        names_after == dep_set.statement_after.within_inames
        s_before_int == 0
        s_after_int == IF dep_set.statement_before.insn_id
                          = dep_set.statement_after.insn_id THEN 0 ELSE 1
    IN [in_names |-> append_marker_to_strings(
                         <<statement_var_name>> \o names_before),
        out_names |-> <<statement_var_name>> \o names_after,
        params |-> ParamsOf(names_before) \cup ParamsOf(names_after),
        rel |-> [n \in 0..MaxN |->
                   {z \in {<<s_before_int>> \o v :
                               v \in get_inames_domain(names_before, n)}
                          \X {<<s_after_int>> \o w :
                               w \in get_inames_domain(names_after, n)} :
                       \E d \in dep_set.deps :
                           DepHolds(d, priority, names_before, z[1],
                                    names_after, z[2])}]]

\* ------------------------------------------------------- alignment (utils)
\* variant: the permutation test only asks for a subset
map_names_match_check_SubsetOnly(obj_map_names, desired_names, assert_subset, assert_permutation) ==
    IF assert_permutation \/ assert_subset
    THEN ~(obj_map_names \subseteq desired_names)
    ELSE FALSE

\* TRUE when map_names_match_check raises ValueError
map_names_match_check(obj_map_names, desired_names, assert_subset, assert_permutation) ==
    IF assert_permutation THEN obj_map_names # desired_names
    ELSE IF assert_subset THEN ~(obj_map_names \subseteq desired_names)
    ELSE FALSE

\* TRUE when ensure_dim_names_match_and_align raises ValueError
NamesMismatch(obj_map, tgt_map) ==
    \/ map_names_match_check(Range(obj_map.in_names), Range(tgt_map.in_names),
                             TRUE, TRUE)
    \/ map_names_match_check(Range(obj_map.out_names), Range(tgt_map.out_names),
                             TRUE, TRUE)
    \/ map_names_match_check(obj_map.params, tgt_map.params, TRUE, TRUE)

\* the tuple over the dimensions from_names listed in the order to_names
AlignTuple(tuple, from_names, to_names) ==
    [x \in DOMAIN to_names |-> tuple[IndexOf(from_names, to_names[x])]]

\* isl.align_spaces(obj_map, tgt_map), once the names are known to match
ensure_dim_names_match_and_align(obj_map, tgt_map) ==
    [in_names |-> tgt_map.in_names,
     out_names |-> tgt_map.out_names,
     params |-> tgt_map.params,
     rel |-> [n \in 0..MaxN |->
                {<<AlignTuple(z[1], obj_map.in_names, tgt_map.in_names),
                   AlignTuple(z[2], obj_map.out_names, tgt_map.out_names)>> :
                 z \in obj_map.rel[n]}]]

\* variant: the subset test the wrong way round
is_subset_Reversed(map1, map2) ==
    \A n \in 0..MaxN : map2.rel[n] \subseteq map1.rel[n]

\* isl's subset test holds for every value of the parameter
is_subset(map1, map2) == \A n \in 0..MaxN : map1.rel[n] \subseteq map2.rel[n]

NoMap == [in_names |-> <<>>, out_names |-> <<>>, params |-> {},
          rel |-> [n \in 0..MaxN |-> {}]]

\* ----------------------------------------------------------- orchestrator
\* for statement_pair_dep_set in statement_pair_dep_sets: the schedule
\* builder is called for the pair of the dependency
ForStatementPairDepSet ==
    /\ pc = "loop"
    /\ dep_idx \in DOMAIN statement_pair_dep_sets
    /\ StartWalk(statement_pair_dep_sets[dep_idx].statement_before.insn_id,
                 statement_pair_dep_sets[dep_idx].statement_after.insn_id)
    /\ UNCHANGED <<kernel_vars, pure_vars, check_vars, error>>

\* (a slip: the flag takes the verdict of the dependency checked last)
UpdateValid_LastVerdict(valid, subset) == subset

\* if not aligned_constraint_map.is_subset(sio): linearization_is_valid = False
UpdateValid(valid, subset) == IF ~subset THEN FALSE ELSE valid

\* the print calls of a failed check
PrintFailure(printed, idx, subset) ==
    IF ~subset THEN Append(printed, idx) ELSE printed

\* (a slip: the loop is left at the first violated dependency)
NextDep_Break(idx, subset) ==
    IF subset THEN idx + 1 ELSE Len(statement_pair_dep_sets) + 1

\* the loop goes on with the next dependency, whatever the subset test said
NextDep(idx, subset) == idx + 1

\* variant: the exception is caught, the dependency skipped
OnConstructionError_SkipDependency(exception, idx) ==
    [pc |-> "loop", error |-> exception, idx |-> idx + 1]

\* variant: the exception is caught and dropped, the loop goes on
OnConstructionError_Ignore(exception, idx) ==
    [pc |-> "loop", error |-> None, idx |-> idx + 1]

\* an exception raised by create_dependency_constraint or by
\* ensure_dim_names_match_and_align is not caught: it leaves the loop and
\* check_linearization_validity
OnConstructionError(exception, idx) ==
    [pc |-> "raised", error |-> exception, idx |-> idx]

\* the rest of the loop body: the maps, the SIO, the constraint map, the
\* alignment and the subset test
CheckDependency ==
    /\ pc = "built"
    /\ LET dep_set == statement_pair_dep_sets[dep_idx]
           sched_maps == create_isl_maps(stmt_instance_before,
                                         stmt_instance_after,
                                         linearization_items)
           sched_lex_order_map ==
               get_lex_order_map_for_sched_space(stmt_instance_before,
                                                 stmt_instance_after)
           new_sio == get_statement_ordering_map(
                          sched_maps[1], sched_maps[2], sched_lex_order_map)
           constraint_map == create_dependency_constraint(dep_set, loop_priority)
           aligned == ensure_dim_names_match_and_align(constraint_map, new_sio)
       IN IF PriorityInconsistent(dep_set, loop_priority)
          THEN /\ pc' = OnConstructionError("PriorityError", dep_idx).pc
               /\ error' = OnConstructionError("PriorityError", dep_idx).error
               /\ dep_idx' = OnConstructionError("PriorityError", dep_idx).idx
               /\ sio' = new_sio
               /\ UNCHANGED <<aligned_constraint_map, linearization_is_valid,
                              output, satisfied>>
          ELSE IF NamesMismatch(constraint_map, new_sio)
          THEN /\ pc' = OnConstructionError("ValueError", dep_idx).pc
               /\ error' = OnConstructionError("ValueError", dep_idx).error
               /\ dep_idx' = OnConstructionError("ValueError", dep_idx).idx
               /\ sio' = new_sio
               /\ UNCHANGED <<aligned_constraint_map, linearization_is_valid,
                              output, satisfied>>
          ELSE /\ sio' = new_sio
               /\ aligned_constraint_map' = aligned
               /\ satisfied' = Append(satisfied, is_subset(aligned, new_sio))
               /\ linearization_is_valid' =
                      UpdateValid(linearization_is_valid,
                                  is_subset(aligned, new_sio))
               /\ output' = PrintFailure(output, dep_idx,
                                         is_subset(aligned, new_sio))
               /\ dep_idx' = NextDep(dep_idx, is_subset(aligned, new_sio))
               /\ pc' = "loop"
               /\ UNCHANGED error
    /\ UNCHANGED <<kernel_vars, pure_vars, walk_vars, result>>

\* return linearization_is_valid
Return ==
    /\ pc = "loop"
    /\ dep_idx > Len(statement_pair_dep_sets)
    /\ result' = linearization_is_valid
    /\ pc' = "done"
    /\ UNCHANGED <<kernel_vars, pure_vars, walk_vars, error>>
    /\ UNCHANGED <<dep_idx, sio, aligned_constraint_map,
                   linearization_is_valid, output, satisfied>>

\* a call of get_schedule_for_statement_pair on its own
get_schedule_for_statement_pair ==
    /\ pc = "call"
    /\ StartWalk(before_insn_id, after_insn_id)
    /\ UNCHANGED <<kernel_vars, pure_vars, check_vars, error>>

\* ------------------------------------------------------------------ inputs
\* the kernels of the tests and of the documentation
LinSameLoop == <<EnterLoop("i"), RunInstruction("a"), RunInstruction("b"),
                 LeaveLoop("i")>>
LinSiblingsKFirst ==
    <<EnterLoop("i"), EnterLoop("k"), RunInstruction("a"), LeaveLoop("k"),
      EnterLoop("j"), RunInstruction("b"), LeaveLoop("j"), LeaveLoop("i")>>
LinSiblingsJFirst ==
    <<EnterLoop("i"), EnterLoop("j"), RunInstruction("b"), LeaveLoop("j"),
      EnterLoop("k"), RunInstruction("a"), LeaveLoop("k"), LeaveLoop("i")>>
LinDocExample ==
    <<EnterLoop("i"), EnterLoop("j"), RunInstruction("a"), LeaveLoop("j"),
      EnterLoop("k"), RunInstruction("b"), LeaveLoop("k"), LeaveLoop("i")>>
LinReversed == <<EnterLoop("i"), RunInstruction("b"), RunInstruction("a"),
                 LeaveLoop("i")>>
LinTopLevel == <<CallKernel, RunInstruction("a"), Barrier(None),
                 RunInstruction("b")>>
LinTwoLoops == <<EnterLoop("i"), RunInstruction("a"), LeaveLoop("i"),
                 EnterLoop("i"), Barrier("b"), LeaveLoop("i")>>
LinPartial == <<EnterLoop("i"), RunInstruction("a"), LeaveLoop("i")>>

ScenarioLins == {LinSameLoop, LinSiblingsKFirst, LinSiblingsJFirst,
                 LinDocExample, LinReversed, LinTopLevel, LinTwoLoops,
                 LinPartial}

\* the linearizations a single dependency is checked on
SingleCheckLins == WellNestedLins(MaxCheckLinLen, NoFillers)

\* the non-concurrent inames both statements are within
SharedInames(items, conc, insn_before, insn_after) ==
    (Range(within_inames(items, insn_before))
        \cap Range(within_inames(items, insn_after))) \ conc

DepKinds(S) == {{[dep_type |-> t, inames |-> S] : t \in T} :
                T \in (SUBSET DependencyType) \ {{}}}

\* the dependencies that can be declared for a kernel with this linearization
DepSetsOver(items, conc, pair, Ss) ==
    UNION {{StatementPairDependencySet(
                pair[1], within_inames(items, pair[1]),
                pair[2], within_inames(items, pair[2]), deps) :
            deps \in DepKinds(S)} : S \in Ss}

StmtPairs == {<<"a", "b">>, <<"b", "a">>}

\* dependencies over any set of shared non-concurrent inames
DepSetsOf(items, conc) ==
    UNION {DepSetsOver(items, conc, pair,
                       SUBSET SharedInames(items, conc, pair[1], pair[2])) :
           pair \in StmtPairs}

\* dependencies over all the shared non-concurrent inames, as created from
\* legacy kernels
LegacyDepSetsOf(items, conc) ==
    UNION {DepSetsOver(items, conc, pair,
                       {SharedInames(items, conc, pair[1], pair[2])}) :
           pair \in StmtPairs}

SeqsUpTo(S, maxlen) == UNION {[1..len -> S] : len \in 0..maxlen}

ConcChoices == {{}, {"i"}}

\* ---------------------------------------------------------- specifications
InitWalkVars ==
    /\ loops_to_ignore = {}
    /\ item_idx = 1
    /\ next_insn_lex_pt = <<LexInt(0)>>
    /\ stmt_added_since_prev_block_at_tier = <<FALSE>>
    /\ next_sid = 0
    /\ stmt_instance_before = NoInstance
    /\ stmt_instance_after = NoInstance

NoCall == [fn |-> None]

InitPureVars ==
    /\ call_args = NoCall
    /\ call_result = NoCall

InitCheckVars ==
    /\ dep_idx = 1
    /\ sio = NoMap
    /\ aligned_constraint_map = NoMap
    /\ linearization_is_valid = TRUE
    /\ output = <<>>
    /\ satisfied = <<>>
    /\ result = None
    /\ error = None

\* check_linearization_validity(knl, statement_pair_dep_sets,
\* linearization_items), at the head of its loop
Init ==
    /\ pc = "loop"
    /\ conc_inames \in ConcChoices
    /\ \/ /\ linearization_items \in ScenarioLins
          /\ statement_pair_dep_sets \in
                 SeqsUpTo(LegacyDepSetsOf(linearization_items, conc_inames),
                          MaxDeps)
       \/ /\ linearization_items \in SingleCheckLins
          /\ statement_pair_dep_sets \in
                 SeqsUpTo(DepSetsOf(linearization_items, conc_inames), 1)
    /\ loop_priority = NestPairs(linearization_items)
    /\ before_insn_id = None
    /\ after_insn_id = None
    /\ InitWalkVars
    /\ InitCheckVars
    /\ InitPureVars

Next ==
    \/ ForStatementPairDepSet
    \/ WalkEnterLoop
    \/ WalkLeaveLoop
    \/ WalkRunInstruction
    \/ WalkBarrier
    \/ WalkOtherItem
    \/ pad_lex_pts_with_zeros
    \/ CheckDependency
    \/ Return

Spec == Init /\ [][Next]_vars

\* the linearizations a pairwise schedule is built for
WalkLins == GeneratedLins \cup SingleCheckLins \cup ScenarioLins

\* get_schedule_for_statement_pair(knl, linearization_items, insn_id_before,
\* insn_id_after), before the call
InitWalk ==
    /\ pc = "call"
    /\ linearization_items \in WalkLins
    /\ conc_inames \in {{}} \cup {{v} : v \in Inames}
    /\ loop_priority = {}
    /\ statement_pair_dep_sets = <<>>
    /\ before_insn_id \in TargetIds
    /\ after_insn_id \in TargetIds
    /\ InitWalkVars
    /\ InitCheckVars
    /\ InitPureVars

NextWalk ==
    \/ get_schedule_for_statement_pair
    \/ WalkEnterLoop
    \/ WalkLeaveLoop
    \/ WalkRunInstruction
    \/ WalkBarrier
    \/ WalkOtherItem
    \/ pad_lex_pts_with_zeros

SpecWalk == InitWalk /\ [][NextWalk]_vars

\* the lex order map called on its own: create_lex_order_map(n_dims) and a
\* test of one pair of integer tuples against it
LexVals == (0 - 1)..MaxLexVal

InitLex ==
    /\ pc = "lex_call"
    /\ call_args \in
           UNION {[fn : {"create_lex_order_map"}, n_dims : {nd},
                   before : [1..nd -> LexVals], after : [1..nd -> LexVals]] :
                  nd \in 1..MaxLexDims}
    /\ call_result = NoCall
    /\ linearization_items = <<>>
    /\ conc_inames = {}
    /\ loop_priority = {}
    /\ statement_pair_dep_sets = <<>>
    /\ before_insn_id = None
    /\ after_insn_id = None
    /\ InitWalkVars
    /\ InitCheckVars

\* a schedule whose lex point is the integer tuple
IntInstance(insn_id, int_id, tuple) ==
    LexScheduleStatementInstance(
        insn_id, int_id, [x \in DOMAIN tuple |-> LexInt(tuple[x])])

\* get_lex_order_map_for_sched_space() of a schedule with integer lex
\* points of n_dims dimensions, and the test of the pair against the map
CallLexOrderMap ==
    /\ pc = "lex_call"
    /\ LET lex_map == get_lex_order_map_for_sched_space(
                          IntInstance("a", 0, call_args.before),
                          IntInstance("b", 1, call_args.after))
       IN call_result' = [fn |-> call_args.fn,
                          map |-> lex_map,
                          holds |-> InLexOrderMap(lex_map, call_args.before,
                                                  call_args.after),
                          holds_reversed |->
                              InLexOrderMap(lex_map, call_args.after,
                                            call_args.before)]
    /\ pc' = "lex_done"
    /\ UNCHANGED <<kernel_vars, walk_vars, check_vars, error, call_args>>

NextLex == CallLexOrderMap

SpecLex == InitLex /\ [][NextLex]_vars

\* two statements in a nest of two and of three loops
LinNestOfTwo ==
    <<EnterLoop("i"), EnterLoop("j"), RunInstruction("a"),
      RunInstruction("b"), LeaveLoop("j"), LeaveLoop("i")>>
LinNestOfThree ==
    <<EnterLoop("i"), EnterLoop("j"), EnterLoop("k"), RunInstruction("a"),
      RunInstruction("b"), LeaveLoop("k"), LeaveLoop("j"), LeaveLoop("i")>>

ErrorLins == {LinSameLoop, LinNestOfTwo, LinNestOfThree, LinTopLevel,
              LinSiblingsKFirst}

\* loop priorities a kernel can declare: none, those of the nest, and
\* contradictory ones
PriorityChoices(items) ==
    {{}, NestPairs(items),
     {<<"i", "j", "k">>},
     {<<"i", "j">>, <<"j", "i">>},
     {<<"i", "j">>, <<"j", "k">>, <<"k", "i">>},
     {<<"i", "j">>, <<"j", "k">>, <<"k", "j">>}}

\* a dependency the way another kernel than the one checked declares it:
\* its statements are within one more iname
WithForeignIname(dep_set) ==
    StatementPairDependencySet(
        dep_set.statement_before.insn_id,
        Append(dep_set.statement_before.within_inames, "m"),
        dep_set.statement_after.insn_id,
        Append(dep_set.statement_after.within_inames, "m"),
        dep_set.deps)

\* the dependencies of b on a, of one kind each, as they are and as
\* another kernel declares them
ErrorDepSets(items) ==
    LET own == {d \in LegacyDepSetsOf(items, {}) :
                   /\ d.statement_before.insn_id = "a"
                   /\ Cardinality(d.deps) = 1}
    IN own \cup {WithForeignIname(d) : d \in own}

\* check_linearization_validity on kernels whose priorities or dependency
\* list make the construction of the constraint map fail
InitErr ==
    /\ pc = "loop"
    /\ conc_inames = {}
    /\ linearization_items \in ErrorLins
    /\ loop_priority \in PriorityChoices(linearization_items)
    /\ statement_pair_dep_sets \in
           SeqsUpTo(ErrorDepSets(linearization_items), MaxDeps)
    /\ before_insn_id = None
    /\ after_insn_id = None
    /\ InitWalkVars
    /\ InitCheckVars
    /\ InitPureVars

SpecErr == InitErr /\ [][Next]_vars

\* the padding of the lex points called on its own: two integer lex points
\* of equal length are padded to a common greater length and compared
\* before and after the padding
InitPadCall ==
    /\ pc = "pad_call"
    /\ call_args \in
           UNION {[fn : {"pad_lex_pts_with_zeros"}, n_dims : {nd},
                   before : [1..nd -> LexVals], after : [1..nd -> LexVals],
                   extra : 0..MaxPad] :
                  nd \in 1..MaxPadDims}
    /\ call_result = NoCall
    /\ linearization_items = <<>>
    /\ conc_inames = {}
    /\ loop_priority = {}
    /\ statement_pair_dep_sets = <<>>
    /\ before_insn_id = None
    /\ after_insn_id = None
    /\ InitWalkVars
    /\ InitCheckVars

\* the integer tuple of a lex point without loop variables
IntsOf(lex_pt) == [x \in DOMAIN lex_pt |-> lex_pt[x].val]

CallPadded ==
    /\ pc = "pad_call"
    /\ LET inst_before == IntInstance("a", 0, call_args.before)
           inst_after == IntInstance("b", 1, call_args.after)
           length == call_args.n_dims + call_args.extra
           padded_before == _pad_lex_pt_with_zeros(inst_before, length)
           padded_after == _pad_lex_pt_with_zeros(inst_after, length)
       IN call_result' =
              [fn |-> call_args.fn,
               before |-> IntsOf(padded_before.lex_pt),
               after |-> IntsOf(padded_after.lex_pt),
               holds |->
                   InLexOrderMap(
                       get_lex_order_map_for_sched_space(inst_before,
                                                         inst_after),
                       IntsOf(inst_before.lex_pt), IntsOf(inst_after.lex_pt)),
               holds_padded |->
                   InLexOrderMap(
                       get_lex_order_map_for_sched_space(padded_before,
                                                         padded_after),
                       IntsOf(padded_before.lex_pt),
                       IntsOf(padded_after.lex_pt))]
    /\ pc' = "pad_done"
    /\ UNCHANGED <<kernel_vars, walk_vars, check_vars, error, call_args>>

\* the padding, on its own and as the last step of a schedule build
InitPad == InitPadCall \/ InitWalk

NextPad == CallPadded \/ NextWalk

SpecPad == InitPad /\ [][NextPad]_vars

\* ------------------------------------------------------------------ claims
\* the conjunction of the verdicts of the dependencies checked so far
AllSatisfied == \A x \in DOMAIN satisfied : satisfied[x]

\* the step at which the subset test of a dependency fails
ViolationFound ==
    /\ Len(satisfied') = Len(satisfied) + 1
    /\ ~Last(satisfied')

\* C1: check_linearization_validity returns True exactly when the aligned
\* constraint map of every dependency of the list is a subset of the SIO of
\* its statement pair (True for the empty list), and the step that finds a
\* dependency violated goes on with the loop instead of raising.
C1_ReturnsConjunction ==
    /\ [](pc = "done" =>
             /\ Len(satisfied) = Len(statement_pair_dep_sets)
             /\ result = AllSatisfied)
    /\ [][ViolationFound => pc' = "loop" /\ error' = None]_vars

\* a run over two dependencies returned False because one was violated
C1_Witness ==
    /\ pc = "done"
    /\ Len(statement_pair_dep_sets) = 2
    /\ satisfied = <<TRUE, FALSE>>
    /\ result = FALSE

\* the empty dependency list returns True
C1_WitnessEmpty ==
    /\ pc = "done"
    /\ statement_pair_dep_sets = <<>>
    /\ result = TRUE

\* the dependencies found violated so far, in the order they were checked
RECURSIVE ViolatedIndices(_)
ViolatedIndices(verdicts) ==
    IF Len(verdicts) = 0 THEN <<>>
    ELSE ViolatedIndices(ButLast(verdicts))
             \o (IF Last(verdicts) THEN <<>> ELSE <<Len(verdicts)>>)

\* C2: a violated dependency does not stop the loop: every dependency of the
\* list gets its verdict, a failure is printed for exactly the violated
\* ones, and linearization_is_valid never goes back from False to True.
C2_NoShortCircuit ==
    /\ [](pc = "done" => Len(satisfied) = Len(statement_pair_dep_sets))
    /\ [](output = ViolatedIndices(satisfied))
    /\ [][~linearization_is_valid => ~linearization_is_valid']_vars
    /\ [][ViolationFound => dep_idx' = dep_idx + 1 /\ pc' = "loop"]_vars

\* a violated dependency was followed by a satisfied one, and a later one
C2_Witness ==
    /\ pc = "done"
    /\ Len(satisfied) >= 2
    /\ ~satisfied[1]
    /\ satisfied[2]
    /\ ~linearization_is_valid
    /\ output[1] = 1

\* the position of the item of statement insn_id in the linearization
PosOf(insn_id) == CHOOSE x \in ItemsOf(linearization_items, insn_id) : TRUE

\* of the two recorded instances, the one whose statement occurs first
EarlierInstance ==
    IF PosOf(before_insn_id) < PosOf(after_insn_id)
    THEN stmt_instance_before ELSE stmt_instance_after

LaterInstance ==
    IF PosOf(before_insn_id) < PosOf(after_insn_id)
    THEN stmt_instance_after ELSE stmt_instance_before

\* p and q agree on every entry before position k
AgreeBefore(p, q, k) == \A j \in 1..(k - 1) : p[j] = q[j]

\* C3: once the schedule of two distinct statements is built, the padded
\* lex point of the statement that occurs earlier in the linearization is
\* strictly lexicographically smaller than that of the later one: all
\* entries before the first differing position are identical, and at that
\* position both entries are integers, the earlier statement's the smaller.
C3_EarlierIsLexSmaller ==
    (pc = "built" /\ before_insn_id # after_insn_id) =>
        LET p == EarlierInstance.lex_pt
            q == LaterInstance.lex_pt
        IN /\ Len(p) = Len(q)
           /\ \E k \in DOMAIN p :
                  /\ AgreeBefore(p, q, k)
                  /\ p[k] # q[k]
                  /\ IsLexInt(p[k])
                  /\ IsLexInt(q[k])
                  /\ p[k].val < q[k].val

\* the after statement occurs first, in a loop the before statement is
\* nested deeper in: the points agree on the loop and differ behind it
C3_Witness ==
    /\ pc = "built"
    /\ before_insn_id # after_insn_id
    /\ PosOf(after_insn_id) < PosOf(before_insn_id)
    /\ Len(stmt_instance_before.lex_pt) = 5
    /\ ~IsLexInt(stmt_instance_before.lex_pt[2])
    /\ AgreeBefore(stmt_instance_before.lex_pt, stmt_instance_after.lex_pt, 3)
    /\ stmt_instance_after.lex_pt[3] # stmt_instance_before.lex_pt[3]

\* p comes strictly before q in the lexicographic order of integer tuples
RECURSIVE RefLexLess(_, _)
RefLexLess(p, q) ==
    IF Len(p) = 0 \/ Len(q) = 0 THEN FALSE
    ELSE IF Head(p) < Head(q) THEN TRUE
    ELSE IF Head(p) > Head(q) THEN FALSE
    ELSE RefLexLess(Tail(p), Tail(q))

\* the pairs of instances (x, y) of two schedule maps, for parameter value
\* n, where the lex point of x comes strictly before the lex point of y
OrderedPairs(map_before, map_after, n) ==
    {<<z[1][1], z[2][1]>> :
     z \in {w \in map_before.rel[n] \X map_after.rel[n] :
               RefLexLess(w[1][2], w[2][2])}}

\* a dependency has been checked and the loop is at its head again: the
\* schedule and the SIO are those of the dependency checked last
DependencyChecked == pc = "loop" /\ dep_idx > 1

\* C4: the SIO of a checked dependency holds the pair (x, y) exactly when
\* x is an instance of the domain of the before map, y one of the domain of
\* the after map, and the lex point of x comes strictly before that of y;
\* its input dimensions are the statement index and the inames of the
\* before map (marked), its output dimensions those of the after map, in
\* the same order.
C4_SioIsLexOrderOfInstances ==
    DependencyChecked =>
        LET maps == create_isl_maps(stmt_instance_before, stmt_instance_after,
                                    linearization_items)
        IN /\ \A n \in 0..MaxN :
                  sio.rel[n] = OrderedPairs(maps[1], maps[2], n)
           /\ sio.in_names = append_marker_to_strings(maps[1].in_names)
           /\ sio.out_names = maps[2].in_names
           /\ maps[1].in_names[1] = statement_var_name
           /\ maps[2].in_names[1] = statement_var_name

\* an SIO over two statements within loops that orders some pairs of
\* instances and not others
C4_Witness ==
    /\ DependencyChecked
    /\ Len(sio.in_names) >= 2
    /\ Len(sio.out_names) >= 3
    /\ sio.rel[MaxN] # {}
    /\ \E v \in get_inames_domain(
                    within_inames(linearization_items, before_insn_id), MaxN) :
       \E w \in get_inames_domain(
                    within_inames(linearization_items, after_insn_id), MaxN) :
           <<<<stmt_instance_before.int_id>> \o v,
             <<stmt_instance_after.int_id>> \o w>> \notin sio.rel[MaxN]

\* the two statements are in the same loop body: the same loops are open at
\* both, and none of them is left between the two
SameBody(items, insn_1, insn_2) ==
    /\ ItemsOf(items, insn_1) # {}
    /\ ItemsOf(items, insn_2) # {}
    /\ LET p1 == CHOOSE x \in ItemsOf(items, insn_1) : TRUE
           p2 == CHOOSE x \in ItemsOf(items, insn_2) : TRUE
       IN /\ OpenLoops(items, p1) = OpenLoops(items, p2)
          /\ \A x \in DOMAIN items :
                 ((p1 <= x /\ x <= p2) \/ (p2 <= x /\ x <= p1))
                     => Len(OpenLoops(items, x)) >= Len(OpenLoops(items, p1))

\* the sequential loops around a statement, outermost first
SequentialLoops(insn_id) ==
    SelectSeq(OpenLoops(linearization_items, PosOf(insn_id)),
              LAMBDA v : v \notin conc_inames)

RefLexLeq(p, q) == p = q \/ RefLexLess(p, q)

\* before and after are in the same loop body, before first, and in every
\* pair of the dependency the values of the loops around them are
\* lexicographically less or equal in the instance before
SameBodyDependency(dep_set) ==
    LET insn_before == dep_set.statement_before.insn_id
        insn_after == dep_set.statement_after.insn_id
        names_before == dep_set.statement_before.within_inames
        names_after == dep_set.statement_after.within_inames
    IN /\ insn_before # insn_after
       /\ SameBody(linearization_items, insn_before, insn_after)
       /\ PosOf(insn_before) < PosOf(insn_after)
       /\ ~PriorityInconsistent(dep_set, loop_priority)
       /\ LET order == SequentialLoops(insn_before)
              constraint_map ==
                  create_dependency_constraint(dep_set, loop_priority)
          IN \A n \in 0..MaxN : \A z \in constraint_map.rel[n] :
                 RefLexLeq(
                     [x \in DOMAIN order |->
                         ValueOf(names_before, z[1], order[x])],
                     [x \in DOMAIN order |->
                         ValueOf(names_after, z[2], order[x])])

\* C5: a dependency between two statements of the same loop body, the
\* before statement first in the linearization, whose pairs have the
\* loop-variable values of the instance before lexicographically less than
\* or equal to those of the instance after, is reported satisfied; a check
\* of such dependencies only returns True.
C5_SameBodyDependenciesHold ==
    /\ \A x \in DOMAIN satisfied :
           SameBodyDependency(statement_pair_dep_sets[x]) => satisfied[x]
    /\ (/\ pc = "done"
        /\ \A x \in DOMAIN statement_pair_dep_sets :
               SameBodyDependency(statement_pair_dep_sets[x]))
           => result = TRUE

\* a SAME-or-PRIOR dependency over a loop around both statements was
\* checked, and the check returned True
C5_Witness ==
    /\ pc = "done"
    /\ result = TRUE
    /\ Len(statement_pair_dep_sets) >= 1
    /\ SameBodyDependency(statement_pair_dep_sets[1])
    /\ {d.dep_type : d \in statement_pair_dep_sets[1].deps} = DependencyType
    /\ \A d \in statement_pair_dep_sets[1].deps : d.inames # {}

\* the dependency "A before B" of kind SAME(i) of the kernel
\* for i: for k: A end; for j: B end end
SiblingsDependency ==
    StatementPairDependencySet(
        "a", <<"i", "k">>, "b", <<"i", "j">>,
        {[dep_type |-> "SAME", inames |-> {"i"}]})

SiblingsDependencyChecked(x) ==
    /\ conc_inames = {}
    /\ x \in DOMAIN satisfied
    /\ statement_pair_dep_sets[x] = SiblingsDependency

\* C6 as stated: the dependency is reported satisfied whichever of the two
\* sibling loops is linearized first
C6_SatisfiedInEitherOrder ==
    \A x \in DOMAIN satisfied :
        (/\ SiblingsDependencyChecked(x)
         /\ linearization_items \in {LinSiblingsKFirst, LinSiblingsJFirst})
            => satisfied[x]

\* C6: the dependency is reported satisfied for the linearization that runs
\* the k-loop (statement A) first within each i-iteration, and violated for
\* the one that runs the j-loop (statement B) first.
C6_SatisfiedWhenKLoopFirst ==
    \A x \in DOMAIN satisfied :
        SiblingsDependencyChecked(x) =>
            /\ linearization_items = LinSiblingsKFirst => satisfied[x]
            /\ linearization_items = LinSiblingsJFirst => ~satisfied[x]

\* both verdicts occur: here the j-loop first, reported violated
C6_Witness ==
    /\ pc = "done"
    /\ linearization_items = LinSiblingsJFirst
    /\ SiblingsDependencyChecked(1)
    /\ ~satisfied[1]
    /\ result = FALSE

\* the k-loop first, reported satisfied
C6_WitnessKFirst ==
    /\ pc = "done"
    /\ linearization_items = LinSiblingsKFirst
    /\ SiblingsDependencyChecked(1)
    /\ satisfied[1]

\* the SIO from a to b was built for "for i: a; b"
SameLoopSioBuilt ==
    /\ DependencyChecked
    /\ conc_inames = {}
    /\ linearization_items = LinSameLoop
    /\ before_insn_id = "a"
    /\ after_insn_id = "b"

\* C7 as stated: the SIO holds exactly the pairs of equal i
C7_SioIsSameIteration ==
    SameLoopSioBuilt =>
        \A n \in 0..MaxN :
            sio.rel[n] = {<<<<0, v>>, <<1, v>>>> : v \in 0..(n - 1)}

\* C7: the SIO from a (statement index 0) to b (statement index 1) holds
\* exactly the pairs with 0 <= i' <= i < n: an instance of b comes after
\* the instance of a of its own iteration and of every earlier one.
C7_SioIsSameOrEarlierIteration ==
    SameLoopSioBuilt =>
        \A n \in 0..MaxN :
            sio.rel[n] = {<<<<0, z[1]>>, <<1, z[2]>>>> :
                          z \in {y \in (0..(n - 1)) \X (0..(n - 1)) :
                                    y[1] <= y[2]}}

\* the SIO orders a of iteration 0 before b of iteration 1
C7_Witness ==
    /\ SameLoopSioBuilt
    /\ <<<<0, 0>>, <<1, 1>>>> \in sio.rel[MaxN]
    /\ <<<<0, 1>>, <<1, 0>>>> \notin sio.rel[MaxN]

\* the larger of the two lengths
LongerOf(p, q) == IF Len(p) >= Len(q) THEN Len(p) ELSE Len(q)

\* q is p followed by literal zeros
ZeroExtends(q, p) ==
    /\ Len(q) >= Len(p)
    /\ \A x \in DOMAIN p : q[x] = p[x]
    /\ \A x \in (Len(p) + 1)..Len(q) : q[x] = LexInt(0)

LexDimNames == <<"l0", "l1", "l2", "l3", "l4", "l5", "l6", "l7", "l8", "l9">>

\* C8: the step that ends the construction of a pairwise schedule leaves
\* both lex points at the larger of the two lengths recorded during the
\* walk, by appending literal zeros behind the recorded entries, and the
\* lex dimension names are l0..l(n-1) for that common length n.
C8_PaddedToCommonLength ==
    [][(pc = "pad" /\ pc' = "built") =>
          LET n == LongerOf(stmt_instance_before.lex_pt,
                            stmt_instance_after.lex_pt)
          IN /\ Len(stmt_instance_before'.lex_pt) = n
             /\ Len(stmt_instance_after'.lex_pt) = n
             /\ ZeroExtends(stmt_instance_before'.lex_pt,
                            stmt_instance_before.lex_pt)
             /\ ZeroExtends(stmt_instance_after'.lex_pt,
                            stmt_instance_after.lex_pt)
             /\ get_lex_var_names(stmt_instance_before', stmt_instance_after')
                    = SubSeq(LexDimNames, 1, n)]_vars

\* the before statement is outside every loop and the after statement in
\* one: the before point was recorded with one entry and has three
C8_Witness ==
    /\ pc = "built"
    /\ OpenLoops(linearization_items, PosOf(before_insn_id)) = <<>>
    /\ stmt_instance_before.lex_pt[1] = LexInt(0)
    /\ Len(stmt_instance_before.lex_pt) = 3
    /\ stmt_instance_before.lex_pt[2] = LexInt(0)
    /\ stmt_instance_before.lex_pt[3] = LexInt(0)
    /\ ~IsLexInt(stmt_instance_after.lex_pt[2])

\* C9: in a built pairwise schedule of two distinct statements the one that
\* occurs first in the linearization has index 0 and the other index 1,
\* whichever of them is the before statement; when before and after name
\* the same statement both instances carry index 0 and the same lex point.
C9_IndicesInLinearizationOrder ==
    pc = "built" =>
        IF before_insn_id = after_insn_id
        THEN /\ stmt_instance_before.int_id = 0
             /\ stmt_instance_after.int_id = 0
             /\ stmt_instance_before.lex_pt = stmt_instance_after.lex_pt
        ELSE /\ EarlierInstance.int_id = 0
             /\ LaterInstance.int_id = 1

\* the after statement occurs first and has index 0, the before statement 1
C9_Witness ==
    /\ pc = "built"
    /\ before_insn_id # after_insn_id
    /\ PosOf(after_insn_id) < PosOf(before_insn_id)
    /\ stmt_instance_after.int_id = 0
    /\ stmt_instance_before.int_id = 1

\* before and after name the same statement
C9_WitnessSame ==
    /\ pc = "built"
    /\ before_insn_id = after_insn_id
    /\ stmt_instance_before = stmt_instance_after
    /\ Len(stmt_instance_before.lex_pt) > 1

\* C10: the lex order map over N >= 1 dimensions holds for a pair of integer
\* N-tuples (before, after) exactly when before comes strictly before
\* after in the lexicographic order, that is when some index k has the
\* tuples equal before k and before smaller at k; the map is the union of
\* exactly N clauses, for N = 1 the single clause before[0] < after[0].
C10_LexOrderByClauses ==
    pc = "lex_done" =>
        /\ call_result.holds = RefLexLess(call_args.before, call_args.after)
        /\ Cardinality(call_result.map.clauses) = call_args.n_dims
        /\ call_args.n_dims = 1 =>
               call_result.holds = (call_args.before[1] < call_args.after[1])
        /\ \A k \in call_result.map.clauses :
               (/\ AgreeBefore(call_args.before, call_args.after, k)
                /\ call_args.before[k] < call_args.after[k])
                   => call_result.holds

\* two triples that agree on two dimensions and are ordered by the third
C10_Witness ==
    /\ pc = "lex_done"
    /\ call_args.n_dims = 3
    /\ call_args.before[1] = call_args.after[1]
    /\ call_args.before[2] = call_args.after[2]
    /\ call_args.before[3] < call_args.after[3]
    /\ call_result.holds

\* C11: of two distinct integer N-tuples A and B exactly one of A <_lex B
\* and B <_lex A holds in the lex order map built for N dimensions; for
\* equal tuples neither holds.
C11_LexOrderIsStrictAndTotal ==
    pc = "lex_done" =>
        IF call_args.before # call_args.after
        THEN call_result.holds # call_result.holds_reversed
        ELSE ~call_result.holds /\ ~call_result.holds_reversed

\* two triples that differ in the last dimension only, the second smaller
C11_Witness ==
    /\ pc = "lex_done"
    /\ call_args.n_dims = 3
    /\ AgreeBefore(call_args.before, call_args.after, 3)
    /\ call_args.before[3] > call_args.after[3]
    /\ ~call_result.holds
    /\ call_result.holds_reversed

\* two equal triples: neither is before the other
C11_WitnessEqual ==
    /\ pc = "lex_done"
    /\ call_args.n_dims = 3
    /\ call_args.before = call_args.after
    /\ ~call_result.holds
    /\ ~call_result.holds_reversed

\* the lex point p is ordered before q at the first entry they differ in
OrderedFirst(p, q) ==
    \E k \in (DOMAIN p) \cap (DOMAIN q) :
        /\ AgreeBefore(p, q, k)
        /\ IsLexInt(p[k])
        /\ IsLexInt(q[k])
        /\ p[k].val < q[k].val

\* C12: appending the same number of zeros to two integer lex points of
\* equal length does not change whether the first is before the second in
\* the lex order, and the padding at the end of a schedule build does not
\* change which of the two recorded points is ordered first.
C12_PaddingKeepsOrder ==
    /\ [](pc = "pad_done" =>
             /\ call_result.holds = call_result.holds_padded
             /\ Len(call_result.before) = call_args.n_dims + call_args.extra
             /\ Len(call_result.after) = call_args.n_dims + call_args.extra
             /\ RefLexLess(call_result.before, call_result.after)
                    = RefLexLess(call_args.before, call_args.after))
    /\ [][(pc = "pad" /\ pc' = "built") =>
             /\ OrderedFirst(stmt_instance_before.lex_pt,
                             stmt_instance_after.lex_pt)
                    = OrderedFirst(stmt_instance_before'.lex_pt,
                                   stmt_instance_after'.lex_pt)
             /\ OrderedFirst(stmt_instance_after.lex_pt,
                             stmt_instance_before.lex_pt)
                    = OrderedFirst(stmt_instance_after'.lex_pt,
                                   stmt_instance_before'.lex_pt)]_vars

\* two pairs that differ in their last entry only, padded with two zeros
C12_Witness ==
    /\ pc = "pad_done"
    /\ call_args.n_dims = 2
    /\ call_args.extra = 2
    /\ call_args.before[1] = call_args.after[1]
    /\ call_args.before[2] < call_args.after[2]
    /\ call_result.holds
    /\ call_result.holds_padded
    /\ Len(call_result.before) = 4

\* the shorter point of a schedule was padded and is still the later one
C12_WitnessSchedule ==
    /\ pc = "built"
    /\ OpenLoops(linearization_items, PosOf(after_insn_id)) = <<>>
    /\ Len(stmt_instance_after.lex_pt) = 3
    /\ OrderedFirst(stmt_instance_before.lex_pt, stmt_instance_after.lex_pt)

\* the dependency names other inames around its statements than the kernel
ForeignNames(dep_set) ==
    \/ dep_set.statement_before.within_inames
           # within_inames(linearization_items,
                           dep_set.statement_before.insn_id)
    \/ dep_set.statement_after.within_inames
           # within_inames(linearization_items,
                           dep_set.statement_after.insn_id)

ConstructionErrors == {"ValueError", "PriorityError"}

\* the run was ended by an exception of the construction of the maps
ConstructionErrorRaised == pc = "raised" /\ error \in ConstructionErrors

\* the dependencies checked before the current one have their verdicts,
\* the current one and those behind it have none
VerdictsStopAtCurrent ==
    /\ dep_idx \in DOMAIN statement_pair_dep_sets
    /\ Len(satisfied) = dep_idx - 1

\* C13: a ValueError of the space alignment or a priority error of the
\* constraint translation, raised while a dependency is checked, leaves
\* check_linearization_validity: nothing is returned, the dependency and
\* those behind it in the list get no verdict, and the run takes no
\* further step.
C13_ConstructionErrorAbortsRun ==
    /\ [](ConstructionErrorRaised => result = None /\ VerdictsStopAtCurrent)
    /\ [][(/\ pc = "built"
           /\ \/ PriorityInconsistent(statement_pair_dep_sets[dep_idx],
                                      loop_priority)
              \/ ForeignNames(statement_pair_dep_sets[dep_idx]))
             => /\ pc' = "raised"
                /\ error' \in ConstructionErrors
                /\ UNCHANGED <<dep_idx, satisfied, result,
                               linearization_is_valid>>]_vars
    /\ [][pc # "raised"]_vars

\* a ValueError at the first of two dependencies
C13_Witness ==
    /\ pc = "raised"
    /\ error = "ValueError"
    /\ dep_idx = 1
    /\ Len(statement_pair_dep_sets) = 2
    /\ satisfied = <<>>
    /\ result = None

\* a priority error at the second dependency, after a verdict for the first
C13_WitnessPriority ==
    /\ pc = "raised"
    /\ error = "PriorityError"
    /\ dep_idx = 2
    /\ Len(satisfied) = 1

\* C14 as stated: a space mismatch ends the check of the current
\* dependency only, the dependencies behind it are still checked
C14_SiblingsStillChecked ==
    (pc = "raised" /\ error = "ValueError")
        => dep_idx = Len(statement_pair_dep_sets)

\* C14: a space-mismatch error is fatal to the whole run: the dependencies
\* checked before it keep their verdicts, the dependency it is raised for
\* and those behind it are not checked, and nothing is returned.
C14_SpaceMismatchEndsRun ==
    /\ [](pc = "raised" /\ error = "ValueError"
             => /\ VerdictsStopAtCurrent
                /\ ForeignNames(statement_pair_dep_sets[dep_idx])
                /\ result = None)
    /\ [][(/\ pc = "built"
           /\ ~PriorityInconsistent(statement_pair_dep_sets[dep_idx],
                                    loop_priority)
           /\ ForeignNames(statement_pair_dep_sets[dep_idx]))
             => /\ pc' = "raised"
                /\ error' = "ValueError"
                /\ satisfied' = satisfied]_vars
    /\ [][pc = "raised" => error' = error /\ satisfied' = satisfied]_vars

\* the first of two dependencies raised the error: the second, which the
\* kernel declares itself, is never checked
C14_Witness ==
    /\ pc = "raised"
    /\ error = "ValueError"
    /\ dep_idx = 1
    /\ Len(statement_pair_dep_sets) = 2
    /\ ForeignNames(statement_pair_dep_sets[1])
    /\ ~ForeignNames(statement_pair_dep_sets[2])
    /\ satisfied = <<>>

ModelledKinds == {"EnterLoop", "LeaveLoop", "RunInstruction", "Barrier"}

\* the item the walk is at is of a kind the walk has no branch for
AtUnmodelledItem ==
    /\ pc = "walk"
    /\ item_idx \in DOMAIN linearization_items
    /\ linearization_items[item_idx].type \notin ModelledKinds

\* the item the walk is at is a barrier without originating statement
AtAnonymousBarrier ==
    /\ pc = "walk"
    /\ item_idx \in DOMAIN linearization_items
    /\ linearization_items[item_idx] = Barrier(None)

\* the step leaves the walk as it is and goes on behind the item
SilentlySkipped ==
    /\ pc' \in {"walk", "pad"}
    /\ error' = None
    /\ item_idx' = item_idx + 1
    /\ UNCHANGED <<next_insn_lex_pt, stmt_added_since_prev_block_at_tier,
                   next_sid, stmt_instance_before, stmt_instance_after>>

\* C15 as stated: the walk does not get past an item of a kind it does not
\* model
C15_UnmodelledItemIsFatal ==
    pc \in {"walk", "pad", "built"} =>
        \A x \in DOMAIN linearization_items :
            x < item_idx => linearization_items[x].type \in ModelledKinds

\* C15: an item of a kind the walk does not model is not an error: it is
\* silently skipped, as a barrier with no originating statement id is; the
\* lex point, the statement index and the recorded statements stay as they
\* are and the walk goes on with the next item.
C15_UnmodelledItemIsSkipped ==
    [][(AtUnmodelledItem \/ AtAnonymousBarrier) => SilentlySkipped]_vars

\* a schedule was built although a CallKernel item came before a target
C15_Witness ==
    /\ pc = "built"
    /\ before_insn_id # after_insn_id
    /\ \E x \in DOMAIN linearization_items :
           /\ linearization_items[x] = CallKernel
           /\ x < PosOf(before_insn_id)
           /\ x < PosOf(after_insn_id)
    /\ EarlierInstance.int_id = 0

LastDependency == statement_pair_dep_sets[dep_idx - 1]

\* the values of the inames of S, outermost first, in an instance whose
\* inames are names (the statement index comes first in the instance)
NestValues(S, names, instance) ==
    LET order == SelectSeq(OpenLoops(linearization_items,
                                     PosOf(LastDependency.statement_before.insn_id)),
                           LAMBDA v : v \in S)
    IN [x \in DOMAIN order |-> instance[1 + IndexOf(names, order[x])]]

\* what one dependency of kind SAME(S) or PRIOR(S) asks of a pair
Required(d, names_before, x, names_after, y) ==
    IF d.dep_type = "SAME"
    THEN NestValues(d.inames, names_before, x)
             = NestValues(d.inames, names_after, y)
    ELSE RefLexLess(NestValues(d.inames, names_before, x),
                    NestValues(d.inames, names_after, y))

\* all instances of a statement within names, for parameter value n
InstancesOf(int_id, names, n) ==
    {<<int_id>> \o v : v \in [1..Len(names) -> 0..(n - 1)]}

\* C17: the constraint map of a dependency holds exactly the pairs of
\* instances that SAME(S) or PRIOR(S) asks for: for SAME(S) those with
\* equal values of every iname of S, for PRIOR(S) those where, with S
\* ordered outermost first by the declared priority, some iname of S is
\* smaller in the instance before and the inames of S outside it are
\* equal; nothing else is constrained.
C17_TranslationOfSameAndPrior ==
    DependencyChecked =>
        LET names_before == LastDependency.statement_before.within_inames
            names_after == LastDependency.statement_after.within_inames
        IN \A n \in 0..MaxN :
               aligned_constraint_map.rel[n] =
                   {z \in InstancesOf(0, names_before, n)
                              \X InstancesOf(1, names_after, n) :
                       \E d \in LastDependency.deps :
                           Required(d, names_before, z[1], names_after, z[2])}

\* a PRIOR dependency over the two loops i and j around both statements:
\* (i' < i) or (i' = i and j' < j)
C17_Witness ==
    /\ DependencyChecked
    /\ LastDependency.deps = {[dep_type |-> "PRIOR", inames |-> {"i", "j"}]}
    /\ <<"i", "j">> \in loop_priority
    /\ LastDependency.statement_before.within_inames = <<"i", "j">>
    /\ LastDependency.statement_after.within_inames = <<"i", "j">>
    /\ <<<<0, 0, 1>>, <<1, 1, 0>>>> \in aligned_constraint_map.rel[MaxN]
    /\ <<<<0, 1, 0>>, <<1, 0, 1>>>> \notin aligned_constraint_map.rel[MaxN]
    /\ <<<<0, 1, 0>>, <<1, 1, 1>>>> \in aligned_constraint_map.rel[MaxN]

\* a SAME dependency over the outer of two loops leaves the inner one free
C17_WitnessSame ==
    /\ DependencyChecked
    /\ LastDependency.deps = {[dep_type |-> "SAME", inames |-> {"i"}]}
    /\ LastDependency.statement_before.within_inames = <<"i", "j">>
    /\ LastDependency.statement_after.within_inames = <<"i", "j">>
    /\ <<<<0, 1, 0>>, <<1, 1, 1>>>> \in aligned_constraint_map.rel[MaxN]
    /\ <<<<0, 1, 1>>, <<1, 1, 0>>>> \in aligned_constraint_map.rel[MaxN]
    /\ <<<<0, 0, 1>>, <<1, 1, 1>>>> \notin aligned_constraint_map.rel[MaxN]

\* some tuple of the declared priorities has v before w
DeclaredBefore(v, w) ==
    \E t \in loop_priority :
        \E x, y \in DOMAIN t : x < y /\ t[x] = v /\ t[y] = w

\* w follows from v by at most n declarations among the inames of S
RECURSIVE FollowsWithin(_, _, _, _)
FollowsWithin(S, v, w, n) ==
    /\ n > 0
    /\ \/ DeclaredBefore(v, w)
       \/ \E u \in S : DeclaredBefore(v, u) /\ FollowsWithin(S, u, w, n - 1)

Follows(S, v, w) == FollowsWithin(S, v, w, Cardinality(S))

\* the declared priorities of the inames of S contain a cycle
PrioritiesCyclic(S) == \E v \in S : Follows(S, v, v)

\* the declared priorities leave two inames of S unordered
PrioritiesInsufficient(S) ==
    \E v, w \in S : v # w /\ ~Follows(S, v, w) /\ ~Follows(S, w, v)

\* a PRIOR dependency of the set is over inames the declared priorities
\* order in a cycle or not at all
HasUnorderedPrior(dep_set) ==
    \E d \in dep_set.deps :
        /\ d.dep_type = "PRIOR"
        /\ PrioritiesCyclic(d.inames) \/ PrioritiesInsufficient(d.inames)

PairJ1And2 == <<"stmt_j1", "stmt_2">>
Pair1AndI0 == <<"stmt_1", "stmt_i0">>
PairVec == <<"stmt_1", "stmt_2">>

\* iname_bound_str and conc_iname_bound_str of the kernel "funky"
FunkyLoopInsts(args) == [i : args.start..(args.end - 1), j : args.start..(args.end - 1), l0 : 0..(args.size - 1), l1 : 0..(args.size - 1), g0 : 0..(args.size - 1)]

FunkyConcInsts(args) == [l0 : 0..(args.size - 1), l1 : 0..(args.size - 1), g0 : 0..(args.size - 1)]

\* iname_bound_str and conc_iname_bound_str of the vec kernel
VecInsts(args) == [i : 0..(VecISize - 1), j : 0..(args.end - 1), l0 : 0..(args.size - 1)]

InstsBefore(args) ==
    IF args.pair = PairJ1And2 THEN FunkyLoopInsts(args)
    ELSE IF args.pair = Pair1AndI0 THEN FunkyConcInsts(args)
    ELSE VecInsts(args)

InstsAfter(args) ==
    IF args.pair = PairJ1And2 THEN FunkyConcInsts(args)
    ELSE IF args.pair = Pair1AndI0 THEN FunkyLoopInsts(args)
    ELSE VecInsts(args)

\* the expected intra-thread ordering; the tests give it for the vec kernel
sio_intra_thread_exp(args) ==
    {p \in InstsBefore(args) \X InstsAfter(args) :
        p[1].j <= p[2].j /\ p[2].l0 = p[1].l0}

\* the expected intra-group ordering of each pair
sio_intra_group_exp(args) ==
    {p \in InstsBefore(args) \X InstsAfter(args) :
        IF args.pair = PairJ1And2
        THEN /\ p[1].j < args.end - 1 \/ p[1].i < args.end - 1
             /\ p[2].g0 = p[1].g0
        ELSE IF args.pair = Pair1AndI0
        THEN /\ args.start + 1 <= p[2].i
             /\ p[2].g0 = p[1].g0
        ELSE p[1].j <= p[2].j}

sio_global_exp_Unconditional(args) ==
    InstsBefore(args) \X InstsAfter(args)

\* the expected global ordering of each pair
sio_global_exp(args) ==
    {p \in InstsBefore(args) \X InstsAfter(args) :
        IF args.pair = PairJ1And2
        THEN p[1].i < args.end - 1
        ELSE IF args.pair = Pair1AndI0
        THEN args.start + 1 <= p[2].i
        ELSE FALSE}

\* the scopes the tests give an expected ordering for
ScopesOf(pair) ==
    IF pair = PairVec THEN {"intra_thread", "intra_group", "global"}
    ELSE {"intra_group", "global"}

NoOrderings == [fn |-> "get_pairwise_statement_orderings", computed |-> {}, sio_intra_thread |-> {}, sio_intra_group |-> {}, sio_global |-> {}]

InitOrderings ==
    /\ pc = "sio_call"
    /\ call_args \in
           [fn : {"get_pairwise_statement_orderings"},
            pair : {PairJ1And2, Pair1AndI0},
            start : 0..MaxIjStart, end : 1..(MaxIjStart + MaxIjLen),
            size : 1..MaxLgEnd]
           \cup [fn : {"get_pairwise_statement_orderings"},
                 pair : {PairVec},
                 start : {0}, end : 1..MaxIjLen, size : {VecLSize}]
    /\ call_args.end - call_args.start \in 1..MaxIjLen
    /\ call_result = NoOrderings
    /\ linearization_items = <<>>
    /\ conc_inames = {}
    /\ loop_priority = {}
    /\ statement_pair_dep_sets = <<>>
    /\ before_insn_id = None
    /\ after_insn_id = None
    /\ InitWalkVars
    /\ InitCheckVars

\* the ordering of one scope is computed
ComputeOrdering(scope) ==
    /\ pc = "sio_call"
    /\ scope \in ScopesOf(call_args.pair) \ call_result.computed
    /\ call_result' =
           [call_result EXCEPT
               !.computed = @ \cup {scope},
               !.sio_intra_thread =
                   IF scope = "intra_thread"
                   THEN sio_intra_thread_exp(call_args) ELSE @,
               !.sio_intra_group =
                   IF scope = "intra_group"
                   THEN sio_intra_group_exp(call_args) ELSE @,
               !.sio_global =
                   IF scope = "global"
                   THEN sio_global_exp(call_args) ELSE @]
    /\ UNCHANGED <<pc, kernel_vars, walk_vars, check_vars, error, call_args>>

\* the orderings of the pair are returned
ReturnOrderings ==
    /\ pc = "sio_call"
    /\ call_result.computed = ScopesOf(call_args.pair)
    /\ pc' = "sio_done"
    /\ UNCHANGED <<kernel_vars, walk_vars, check_vars, error, pure_vars>>

NextOrderings ==
    \/ \E scope \in {"intra_thread", "intra_group", "global"} :
           ComputeOrdering(scope)
    \/ ReturnOrderings

SpecOrderings == InitOrderings /\ [][NextOrderings]_vars

\* the pairs of a relation whose instances agree on the given inames, where
\* both have them
Within(rel_set, names) ==
    {p \in rel_set :
        \A nm \in (names \cap DOMAIN p[1]) \cap DOMAIN p[2] :
            p[1][nm] = p[2][nm]}

GroupInames == {"g0"}
ThreadInames == {"l0", "l1", "g0"}

OrderingsReturned ==
    /\ pc = "sio_done"
    /\ call_args.fn = "get_pairwise_statement_orderings"

\* C19 as stated: the global ordering is a subset of the intra-group
\* ordering, and the intra-group ordering is a subset of the intra-thread
\* ordering
C19_OrderingShrinksWithScope ==
    OrderingsReturned =>
        /\ call_result.sio_global \subseteq call_result.sio_intra_group
        /\ "intra_thread" \in call_result.computed =>
               call_result.sio_intra_group
                   \subseteq call_result.sio_intra_thread

\* C19, amended: among the pairs of instances of one group the global
\* ordering is a subset of the intra-group ordering, and among the pairs of
\* instances of one thread the intra-group ordering is a subset of the
\* intra-thread ordering
C19_OrderingShrinksWithinScope ==
    OrderingsReturned =>
        /\ Within(call_result.sio_global, GroupInames)
               \subseteq call_result.sio_intra_group
        /\ "intra_thread" \in call_result.computed =>
               Within(call_result.sio_intra_group, ThreadInames)
                   \subseteq call_result.sio_intra_thread

\* a returned global ordering that relates instances of one group and
\* instances of two groups
C19_Witness ==
    /\ OrderingsReturned
    /\ \E p \in call_result.sio_global : p[1].g0 = p[2].g0
    /\ \E p \in call_result.sio_global : p[1].g0 # p[2].g0

\* returned orderings of all three scopes, the intra-group one relating
\* instances of two threads
C19_WitnessThreads ==
    /\ OrderingsReturned
    /\ "intra_thread" \in call_result.computed
    /\ \E p \in call_result.sio_intra_group : p[1].l0 # p[2].l0
    /\ call_result.sio_intra_thread # {}

\* the schedule of (insn_a, insn_b) is built for the linearization of the
\* example in the documentation of get_schedule_for_statement_pair, whose
\* kernel has no concurrent inames
DocExampleBuilt ==
    /\ pc = "built"
    /\ linearization_items = LinDocExample
    /\ conc_inames = {}
    /\ before_insn_id = "a"
    /\ after_insn_id = "b"

\* C20: for the linearization enter i, enter j, run insn_a, leave j,
\* enter k, run insn_b, leave k, leave i the schedule of (insn_a, insn_b)
\* gives insn_a the index 0 and the lex point (0, i, 0, j, 0) and insn_b the
\* index 1 and the lex point (0, i, 1, k, 0)
C20_DocExampleSchedule ==
    DocExampleBuilt =>
        /\ stmt_instance_before =
               [insn_id |-> "a", int_id |-> 0,
                lex_pt |-> <<LexInt(0), LexVar("i"), LexInt(0), LexVar("j"),
                             LexInt(0)>>]
        /\ stmt_instance_after =
               [insn_id |-> "b", int_id |-> 1,
                lex_pt |-> <<LexInt(0), LexVar("i"), LexInt(1), LexVar("k"),
                             LexInt(0)>>]

\* the schedule of the documentation example is built, with two lex points
\* of five entries
C20_Witness ==
    /\ DocExampleBuilt
    /\ Len(stmt_instance_before.lex_pt) = 5
    /\ Len(stmt_instance_after.lex_pt) = 5

\* the walk is at a RunInstruction or Barrier item that has no statement id
\* or whose id is neither target statement
AtOtherStatement ==
    /\ pc = "walk"
    /\ item_idx \in DOMAIN linearization_items
    /\ linearization_items[item_idx].type \in {"RunInstruction", "Barrier"}
    /\ \/ linearization_items[item_idx].name = None
       \/ linearization_items[item_idx].name
              \notin {before_insn_id, after_insn_id}

\* C21: a RunInstruction or Barrier item without a statement id, or whose id
\* matches neither target statement, leaves the lex point, the emitted
\* flags, the statement-index counter and both recorded instances unchanged
C21_OtherStatementChangesNothing ==
    [][AtOtherStatement =>
           UNCHANGED <<next_insn_lex_pt, stmt_added_since_prev_block_at_tier,
                       next_sid, stmt_instance_before,
                       stmt_instance_after>>]_vars

\* the walk has just passed such an item inside a loop, after it recorded
\* one of the two statements
C21_Witness ==
    /\ pc \in {"walk", "pad"}
    /\ item_idx > 1
    /\ item_idx - 1 \in DOMAIN linearization_items
    /\ linearization_items[item_idx - 1].type \in {"RunInstruction", "Barrier"}
    /\ linearization_items[item_idx - 1].name
           \notin {before_insn_id, after_insn_id}
    /\ next_sid = 1
    /\ Len(next_insn_lex_pt) > 1

\* ------------------------------------------- the walk as one computation
\* The body of the loop of LexSchedule.__init__ for one item when no loop is
\* ignored, on a record of the locals of the walk.
RefStep(st, item, insn_before, insn_after) ==
    IF item.type = "EnterLoop"
    THEN LET closed == CloseBlock(st.pt, st.added)
         IN [st EXCEPT !.pt = closed.pt \o <<LexVar(item.name), LexInt(0)>>,
                       !.added = Append(closed.added, FALSE)]
    ELSE IF item.type = "LeaveLoop"
    THEN LET closed == CloseBlock(PopLoop(st.pt),
                                  ButLast(st.added))
         IN [st EXCEPT !.pt = closed.pt, !.added = closed.added]
    ELSE IF item.type \in {"RunInstruction", "Barrier"} /\ item.name # None
    THEN LET recorded == LexScheduleStatementInstance(item.name, st.sid, st.pt)
             is_before == MatchesTarget(item.name, insn_before)
             is_after == MatchesTarget(item.name, insn_after)
             st2 == [st EXCEPT
                        !.inst_before = IF is_before THEN recorded ELSE @,
                        !.inst_after = IF is_after THEN recorded ELSE @]
         IN IF is_before \/ is_after
            THEN [st2 EXCEPT !.pt = IncrLast(st.pt),
                             !.sid = st.sid + 1,
                             !.added = [x \in DOMAIN st.added |-> TRUE]]
            ELSE st2
    ELSE st

\* the loop over the items from item x on, with its break
RECURSIVE RefWalk(_, _, _, _, _)
RefWalk(st, items, x, insn_before, insn_after) ==
    IF x > Len(items)
       \/ (st.inst_before # NoInstance /\ st.inst_after # NoInstance)
    THEN st
    ELSE RefWalk(RefStep(st, items[x], insn_before, insn_after), items, x + 1,
                 insn_before, insn_after)

\* LexSchedule(items, insn_before, insn_after) with nothing to ignore: how
\* the construction ends and the two instances it leaves
RefBuild(items, insn_before, insn_after) ==
    LET start == [pt |-> <<LexInt(0)>>, added |-> <<FALSE>>, sid |-> 0,
                  inst_before |-> NoInstance, inst_after |-> NoInstance]
        st == RefWalk(start, items, 1, insn_before, insn_after)
        length == max_lex_dims(st.inst_before, st.inst_after)
    IN IF st.inst_before = NoInstance \/ st.inst_after = NoInstance
       THEN [pc |-> "raised", inst_before |-> st.inst_before,
             inst_after |-> st.inst_after]
       ELSE [pc |-> "built",
             inst_before |-> _pad_lex_pt_with_zeros(st.inst_before, length),
             inst_after |-> _pad_lex_pt_with_zeros(st.inst_after, length)]

\* the concurrent-tagged inames that have an EnterLoop in the linearization
IgnoredInames ==
    {v \in conc_inames :
        \E x \in DOMAIN linearization_items :
            linearization_items[x] = EnterLoop(v)}

\* the linearization without the EnterLoop and LeaveLoop items of the inames
WithoutLoopsOf(items, inames) ==
    SelectSeq(items,
              LAMBDA item : ~(item.type \in {"EnterLoop", "LeaveLoop"}
                              /\ item.name \in inames))

InamesOfPoint(lex_pt) ==
    {lex_pt[x].iname : x \in {y \in DOMAIN lex_pt : ~IsLexInt(lex_pt[y])}}

BuilderEnded == pc \in {"built", "raised"}

\* C22: the schedule built is the schedule built from the linearization
\* without the EnterLoop and LeaveLoop items of the ignored inames, and no
\* ignored iname occurs in a recorded lex point
C22_IgnoredLoopsChangeNothing ==
    /\ InamesOfPoint(stmt_instance_before.lex_pt) \cap IgnoredInames = {}
    /\ InamesOfPoint(stmt_instance_after.lex_pt) \cap IgnoredInames = {}
    /\ BuilderEnded =>
           LET without == RefBuild(
                   WithoutLoopsOf(linearization_items, IgnoredInames),
                   before_insn_id, after_insn_id)
           IN /\ pc = without.pc
              /\ stmt_instance_before = without.inst_before
              /\ stmt_instance_after = without.inst_after

\* a schedule is built of two statements inside an ignored loop and inside
\* a loop that is not ignored
C22_Witness ==
    /\ pc = "built"
    /\ before_insn_id # after_insn_id
    /\ \E v \in IgnoredInames :
           \E x \in DOMAIN linearization_items :
               /\ linearization_items[x] = EnterLoop(v)
               /\ x < PosOf(before_insn_id)
               /\ x < PosOf(after_insn_id)
    /\ Len(stmt_instance_before.lex_pt) = 3
    /\ Len(stmt_instance_after.lex_pt) = 3

\* the verdict of one dependency checked on its own: the schedule of its
\* pair built from scratch, then the maps, the SIO, the constraint map and
\* the subset test
VerdictAlone(dep_set) ==
    LET built == RefBuild(WithoutLoopsOf(linearization_items, IgnoredInames),
                          dep_set.statement_before.insn_id,
                          dep_set.statement_after.insn_id)
        sched_maps == create_isl_maps(built.inst_before, built.inst_after,
                                      linearization_items)
        alone_sio == get_statement_ordering_map(
                         sched_maps[1], sched_maps[2],
                         get_lex_order_map_for_sched_space(
                             built.inst_before, built.inst_after))
        constraint_map == create_dependency_constraint(dep_set, loop_priority)
    IN is_subset(ensure_dim_names_match_and_align(constraint_map, alone_sio),
                 alone_sio)

\* a schedule build is started for the next dependency
BuildStarts == pc = "loop" /\ pc' \in {"walk", "pad"}

\* C23: every schedule build starts from lex point [0], one False flag, the
\* counter 0 and no recorded statement; no step modifies the linearization
\* or the dependency list; the verdict of every dependency is the verdict it
\* gets when it is checked on its own
C23_NoStateCarriesOver ==
    [][/\ BuildStarts =>
              /\ next_insn_lex_pt' = <<LexInt(0)>>
              /\ stmt_added_since_prev_block_at_tier' = <<FALSE>>
              /\ next_sid' = 0
              /\ stmt_instance_before' = NoInstance
              /\ stmt_instance_after' = NoInstance
       /\ UNCHANGED <<linearization_items, statement_pair_dep_sets>>
       /\ \A x \in DOMAIN satisfied' :
              satisfied'[x] = VerdictAlone(statement_pair_dep_sets[x])]_vars

\* two different dependencies were checked, the second after a build that
\* left a longer lex point and a counter of 2, with different verdicts
C23_Witness ==
    /\ pc = "loop"
    /\ Len(satisfied) = 2
    /\ statement_pair_dep_sets[1] # statement_pair_dep_sets[2]
    /\ satisfied[1] # satisfied[2]
    /\ next_sid = 2

\* --------------------------------------- the alignment helpers on their own
\* lists of distinct dimension names of at most n names
NameLists(n) ==
    {l \in SeqsUpTo(Inames, n) : \A x, y \in DOMAIN l : x # y => l[x] # l[y]}

\* a value that tells the dimensions apart
NameValue(name) == IndexOf(InamesSorted, name) - 1

\* a map over the given names that holds, for every parameter value, the one
\* pair in which every dimension has the value of its name
MapOver(in_names, out_names, params) ==
    [in_names |-> in_names, out_names |-> out_names, params |-> params,
     rel |-> [n \in 0..MaxN |->
                {<<[x \in DOMAIN in_names |-> NameValue(in_names[x])],
                   [x \in DOMAIN out_names |-> NameValue(out_names[x])]>>}]]

ParamChoices == {{}, {"n"}}

NoNamesResult == [fn |-> None, raised |-> FALSE, returned |-> FALSE, value |-> NoMap]

InitNamesCall ==
    /\ pc = "names_call"
    /\ call_args \in
           [fn : {"map_names_match_check"},
            obj_map_names : NameLists(MaxNames),
            desired_names : NameLists(MaxNames),
            assert_subset : BOOLEAN, assert_permutation : BOOLEAN]
           \cup [fn : {"ensure_dim_names_match_and_align"},
                 obj_map : {MapOver(a, b, c) :
                               a \in NameLists(MaxNames),
                               b \in NameLists(MaxNames - 1),
                               c \in ParamChoices},
                 tgt_map : {MapOver(a, b, c) :
                               a \in NameLists(MaxNames),
                               b \in NameLists(MaxNames - 1),
                               c \in ParamChoices}]
    /\ call_result = NoNamesResult
    /\ linearization_items = <<>>
    /\ conc_inames = {}
    /\ loop_priority = {}
    /\ statement_pair_dep_sets = <<>>
    /\ before_insn_id = None
    /\ after_insn_id = None
    /\ InitWalkVars
    /\ InitCheckVars

\* map_names_match_check(obj_map, desired_names, dim_type, assert_subset,
\* assert_permutation) for the names of one dimension type
CallNamesMatchCheck ==
    /\ pc = "names_call"
    /\ call_args.fn = "map_names_match_check"
    /\ call_result' =
           [fn |-> call_args.fn,
            raised |-> map_names_match_check(
                           Range(call_args.obj_map_names),
                           Range(call_args.desired_names),
                           call_args.assert_subset,
                           call_args.assert_permutation),
            returned |-> FALSE, value |-> NoMap]
    /\ pc' = "names_done"
    /\ UNCHANGED <<kernel_vars, walk_vars, check_vars, error, call_args>>

\* ensure_dim_names_match_and_align(obj_map, tgt_map)
CallEnsureAlign ==
    /\ pc = "names_call"
    /\ call_args.fn = "ensure_dim_names_match_and_align"
    /\ call_result' =
           IF NamesMismatch(call_args.obj_map, call_args.tgt_map)
           THEN [fn |-> call_args.fn, raised |-> TRUE, returned |-> FALSE,
                 value |-> NoMap]
           ELSE [fn |-> call_args.fn, raised |-> FALSE, returned |-> TRUE,
                 value |-> ensure_dim_names_match_and_align(
                               call_args.obj_map, call_args.tgt_map)]
    /\ pc' = "names_done"
    /\ UNCHANGED <<kernel_vars, walk_vars, check_vars, error, call_args>>

\* C24: map_names_match_check raises exactly when, with assert_permutation,
\* the two sets of names differ, or, without it and with assert_subset, the
\* map's names are not all among the desired names;
\* ensure_dim_names_match_and_align raises exactly when the input, the
\* output or the parameter names of the two maps differ as sets, and then
\* returns no aligned map
C24_NameChecksRaiseExactly ==
    pc = "names_done" =>
        IF call_args.fn = "map_names_match_check"
        THEN LET have == {call_args.obj_map_names[x] :
                             x \in DOMAIN call_args.obj_map_names}
                 want == {call_args.desired_names[x] :
                             x \in DOMAIN call_args.desired_names}
             IN call_result.raised <=>
                    \/ call_args.assert_permutation /\ have # want
                    \/ /\ ~call_args.assert_permutation
                       /\ call_args.assert_subset
                       /\ \E name \in have : name \notin want
        ELSE call_args.fn = "ensure_dim_names_match_and_align" =>
             LET obj == call_args.obj_map
                 tgt == call_args.tgt_map
                 differ == \/ Range(obj.in_names) # Range(tgt.in_names)
                           \/ Range(obj.out_names) # Range(tgt.out_names)
                           \/ obj.params # tgt.params
             IN /\ call_result.raised <=> differ
                /\ call_result.returned <=> ~differ
                /\ differ => call_result.value = NoMap

\* the subset test without the permutation test let pass a map with fewer
\* names than desired
C24_Witness ==
    /\ pc = "names_done"
    /\ call_args.fn = "map_names_match_check"
    /\ ~call_args.assert_permutation
    /\ call_args.assert_subset
    /\ Len(call_args.obj_map_names) < Len(call_args.desired_names)
    /\ call_args.obj_map_names # <<>>
    /\ ~call_result.raised

\* the alignment was refused for the output names alone
C24_WitnessAlign ==
    /\ pc = "names_done"
    /\ call_args.fn = "ensure_dim_names_match_and_align"
    /\ Range(call_args.obj_map.in_names) = Range(call_args.tgt_map.in_names)
    /\ call_args.obj_map.in_names # call_args.tgt_map.in_names
    /\ call_args.obj_map.params = call_args.tgt_map.params
    /\ call_result.raised

\* a set: the names of its dimensions in order and its points
DimVals == 0..1

SetOver(names, pts) == [names |-> names, pts |-> pts]

NoSet == SetOver(<<>>, {})

\* idx counts from 0, as in the code
InsertAt(seq, idx, e) ==
    SubSeq(seq, 1, idx) \o <<e>> \o SubSeq(seq, idx + 1, Len(seq))

RemoveAt(seq, idx) == SubSeq(seq, 1, idx) \o SubSeq(seq, idx + 2, Len(seq))

\* new_set.insert_dims(dim_type, desired_idx, 1).set_dim_name(dim_type,
\* desired_idx, name): the new dimension is unconstrained
insert_dims(isl_set, desired_idx, name) ==
    SetOver(InsertAt(isl_set.names, desired_idx, name),
            {InsertAt(t, desired_idx, v) : t \in isl_set.pts, v \in DimVals})

\* variant: the name moves, the values stay where they were
move_dims_NamesOnly(isl_set, desired_idx, current_idx) ==
    SetOver(InsertAt(RemoveAt(isl_set.names, current_idx), desired_idx,
                     isl_set.names[current_idx + 1]),
            isl_set.pts)

\* the two move_dims calls: the dimension at current_idx is moved to the
\* parameters and from there to desired_idx
move_dims(isl_set, desired_idx, current_idx) ==
    SetOver(InsertAt(RemoveAt(isl_set.names, current_idx), desired_idx,
                     isl_set.names[current_idx + 1]),
            {InsertAt(RemoveAt(t, current_idx), desired_idx,
                      t[current_idx + 1]) : t \in isl_set.pts})

\* the loop "for desired_idx, name in enumerate(desired_dims_ordered)"
RECURSIVE ReorderFrom(_, _, _)
ReorderFrom(new_set, desired_dims_ordered, desired_idx) ==
    IF desired_idx >= Len(desired_dims_ordered) THEN new_set
    ELSE LET name == desired_dims_ordered[desired_idx + 1]
             current_idx == IndexOf(new_set.names, name) - 1
         IN ReorderFrom(
                IF name \notin Range(new_set.names)
                THEN insert_dims(new_set, desired_idx, name)
                ELSE IF current_idx # desired_idx
                THEN move_dims(new_set, desired_idx, current_idx)
                ELSE new_set,
                desired_dims_ordered, desired_idx + 1)

\* insert_missing_dims_and_reorder_by_name(isl_set, dim_type,
\* desired_dims_ordered), once the names are known to be a subset
insert_missing_dims_and_reorder_by_name(isl_set, desired_dims_ordered) ==
    ReorderFrom(isl_set, desired_dims_ordered, 0)

\* the sets of one or two points over n dimensions
PointSets(n) ==
    {P \in SUBSET [1..n -> DimVals] : Cardinality(P) \in 1..2}

InitReorderCall ==
    /\ pc = "names_call"
    /\ call_args \in
           UNION {[fn : {"insert_missing_dims_and_reorder_by_name"},
                   isl_set : {SetOver(names, P) : P \in PointSets(Len(names))},
                   desired_dims_ordered : NameLists(MaxNames + 1)] :
                  names \in NameLists(MaxNames)}
    /\ call_result = NoNamesResult
    /\ linearization_items = <<>>
    /\ conc_inames = {}
    /\ loop_priority = {}
    /\ statement_pair_dep_sets = <<>>
    /\ before_insn_id = None
    /\ after_insn_id = None
    /\ InitWalkVars
    /\ InitCheckVars

CallInsertMissingDims ==
    /\ pc = "names_call"
    /\ call_args.fn = "insert_missing_dims_and_reorder_by_name"
    /\ call_result' =
           IF map_names_match_check(Range(call_args.isl_set.names),
                                    Range(call_args.desired_dims_ordered),
                                    TRUE, FALSE)
           THEN [fn |-> call_args.fn, raised |-> TRUE, returned |-> FALSE,
                 value |-> NoSet]
           ELSE [fn |-> call_args.fn, raised |-> FALSE, returned |-> TRUE,
                 value |-> insert_missing_dims_and_reorder_by_name(
                               call_args.isl_set,
                               call_args.desired_dims_ordered)]
    /\ pc' = "names_done"
    /\ UNCHANGED <<kernel_vars, walk_vars, check_vars, error, call_args>>

InitNames == InitNamesCall \/ InitReorderCall

NextNames ==
    \/ CallNamesMatchCheck
    \/ CallEnsureAlign
    \/ CallInsertMissingDims

SpecNames == InitNames /\ [][NextNames]_vars

ReorderReturned ==
    /\ pc = "names_done"
    /\ call_args.fn = "insert_missing_dims_and_reorder_by_name"

\* C25: when the names of the set are among the desired names the result
\* has exactly the desired names in their order, and a point is in it
\* exactly when its values at the old dimensions make a point of the old
\* set, whatever its values at the inserted dimensions; otherwise ValueError
\* is raised and no set is returned
C25_ReorderedAndAugmented ==
    ReorderReturned =>
        LET old == call_args.isl_set
            desired == call_args.desired_dims_ordered
        IN IF \A x \in DOMAIN old.names :
                  \E y \in DOMAIN desired : desired[y] = old.names[x]
           THEN /\ call_result.returned /\ ~call_result.raised
                /\ call_result.value.names = desired
                /\ call_result.value.pts =
                       {t \in [DOMAIN desired -> DimVals] :
                           [x \in DOMAIN old.names |->
                               t[CHOOSE y \in DOMAIN desired :
                                     desired[y] = old.names[x]]]
                               \in old.pts}
           ELSE /\ call_result.raised /\ ~call_result.returned
                /\ call_result.value = NoSet

\* a set of two dimensions was reordered and a missing dimension inserted
\* between them
C25_Witness ==
    /\ ReorderReturned
    /\ call_result.returned
    /\ Len(call_args.isl_set.names) = 2
    /\ Len(call_args.desired_dims_ordered) = 3
    /\ call_args.desired_dims_ordered[1] = call_args.isl_set.names[2]
    /\ call_args.desired_dims_ordered[3] = call_args.isl_set.names[1]
    /\ \E t \in call_args.isl_set.pts : t[1] # t[2]

\* a set with a name that is not desired was refused
C25_WitnessRaised ==
    /\ ReorderReturned
    /\ call_result.raised
    /\ call_args.desired_dims_ordered # <<>>

\* ------------------------------ get_orderings_of_length_n, call by call
\* The recursion of _generate_orderings_starting_w_prefix as a stack of
\* calls: a frame is the start_prefix of a call that is in its for loop and
\* the next_items the loop has not taken yet. The order in which the loop
\* takes the items of a set is not fixed.
AllowedAfterDicts == UNION {[K -> SUBSET Inames] : K \in SUBSET Inames}

NoOrderingsCall == [fn |-> "get_orderings_of_length_n", orderings |-> {}, stack |-> <<>>, start_prefix |-> <<>>, max_depth |-> 0]

InitOrd ==
    /\ pc = "ord_call"
    /\ call_args \in
           [fn : {"get_orderings_of_length_n"},
            allowed_after_dict : AllowedAfterDicts,
            required_length : 0..MaxRequiredLength,
            return_first_found : BOOLEAN]
    /\ call_result = NoOrderingsCall
    /\ linearization_items = <<>>
    /\ conc_inames = {}
    /\ loop_priority = {}
    /\ statement_pair_dep_sets = <<>>
    /\ before_insn_id = None
    /\ after_insn_id = None
    /\ InitWalkVars
    /\ InitCheckVars

\* variant: prefixes longer than required are added too
AddsPrefix_AtLeast(required_length, start_prefix) ==
    IF required_length # 0
    THEN Len(start_prefix) >= required_length
    ELSE TRUE

\* "if required_length: if len(start_prefix) == required_length: ... else:":
\* the call adds its start_prefix to the orderings
AddsPrefix(required_length, start_prefix) ==
    IF required_length # 0
    THEN Len(start_prefix) = required_length
    ELSE TRUE

\* variant: a name of the prefix may be taken again
NextItems_WithRepeats(allowed_after_dict, start_prefix) ==
    IF Len(start_prefix) > 0
    THEN allowed_after_dict[Last(start_prefix)]
    ELSE DOMAIN allowed_after_dict

\* allowed_after_dict[start_prefix[-1]]-set(start_prefix), or the keys
NextItems(allowed_after_dict, start_prefix) ==
    IF Len(start_prefix) > 0
    THEN allowed_after_dict[Last(start_prefix)] \ Range(start_prefix)
    ELSE DOMAIN allowed_after_dict

\* a call of _generate_orderings_starting_w_prefix up to its for loop: a
\* KeyError for a last name that is no key, the prefix added, the return
\* before the loop, or a new frame
EnterCall(start_prefix, stack) ==
    LET dict == call_args.allowed_after_dict
        adds == AddsPrefix(call_args.required_length, start_prefix)
        new_orderings == IF adds THEN call_result.orderings \cup {start_prefix}
                         ELSE call_result.orderings
        depth == IF Len(start_prefix) > call_result.max_depth
                 THEN Len(start_prefix) ELSE call_result.max_depth
    IN IF Len(start_prefix) > 0 /\ Last(start_prefix) \notin DOMAIN dict
       THEN /\ pc' = "raised"
            /\ error' = "KeyError"
            /\ call_result' = [call_result EXCEPT !.stack = <<>>,
                                                  !.start_prefix = start_prefix,
                                                  !.max_depth = depth]
       ELSE /\ pc' = "ord_run"
            /\ UNCHANGED error
            /\ call_result' =
                   [call_result EXCEPT
                       !.orderings = new_orderings,
                       !.start_prefix = start_prefix,
                       !.max_depth = depth,
                       !.stack =
                           IF (adds /\ call_args.return_first_found)
                              \/ NextItems(dict, start_prefix) = {}
                           THEN stack
                           ELSE Append(stack,
                                       [start_prefix |-> start_prefix,
                                        next_items |->
                                            NextItems(dict, start_prefix)])]

\* get_orderings_of_length_n calls the helper with start_prefix=()
CallOrderings ==
    /\ pc = "ord_call"
    /\ EnterCall(<<>>, <<>>)
    /\ UNCHANGED <<kernel_vars, walk_vars, check_vars, call_args>>

\* "if return_first_found and orderings: return", after a call of the loop
FirstFound ==
    call_args.return_first_found /\ call_result.orderings # {}

\* one iteration of "for next_item in next_items" of the innermost call
OrderingsLoop ==
    /\ pc = "ord_run"
    /\ call_result.stack # <<>>
    /\ ~FirstFound
    /\ LET top == Last(call_result.stack)
       IN \E next_item \in top.next_items :
              EnterCall(Append(top.start_prefix, next_item),
                        Append(ButLast(call_result.stack),
                               [top EXCEPT !.next_items = @ \ {next_item}]))
    /\ UNCHANGED <<kernel_vars, walk_vars, check_vars, call_args>>

\* the innermost call returns: its loop is over, or an ordering was found
\* and return_first_found is set
OrderingsReturn ==
    /\ pc = "ord_run"
    /\ call_result.stack # <<>>
    /\ FirstFound \/ Last(call_result.stack).next_items = {}
    /\ call_result' = [call_result EXCEPT !.stack = ButLast(@)]
    /\ UNCHANGED <<pc, error, kernel_vars, walk_vars, check_vars, call_args>>

\* return orderings
OrderingsDone ==
    /\ pc = "ord_run"
    /\ call_result.stack = <<>>
    /\ pc' = "ord_done"
    /\ UNCHANGED <<error, kernel_vars, walk_vars, check_vars, pure_vars>>

NextOrd ==
    \/ CallOrderings
    \/ OrderingsLoop
    \/ OrderingsReturn
    \/ OrderingsDone

SpecOrd == InitOrd /\ [][NextOrd]_vars

\* the calls run on until the function returns or raises
SpecOrdFair == SpecOrd /\ WF_vars(NextOrd)

\* every name a value of the dictionary is also a key of it
Closed(allowed_after_dict) ==
    \A key \in DOMAIN allowed_after_dict :
        allowed_after_dict[key] \subseteq DOMAIN allowed_after_dict

\* the tuples of n distinct names that start with a key and in which every
\* later name is allowed after the name right before it
ExplicitChains(allowed_after_dict, n) ==
    {t \in [1..n -> Inames] :
        /\ \A x, y \in 1..n : x # y => t[x] # t[y]
        /\ t[1] \in DOMAIN allowed_after_dict
        /\ \A x \in 2..n :
               /\ t[x - 1] \in DOMAIN allowed_after_dict
               /\ t[x] \in allowed_after_dict[t[x - 1]]}

\* get_orderings_of_length_n has returned for a required_length of at least
\* one and a dictionary whose names are all keys
ChainsReturned ==
    /\ pc = "ord_done"
    /\ call_args.required_length >= 1
    /\ Closed(call_args.allowed_after_dict)

\* C26 as stated: the orderings returned are exactly the explicitly allowed
\* chains of required_length distinct names
C26_ReturnsAllExplicitChains ==
    ChainsReturned =>
        call_result.orderings =
            ExplicitChains(call_args.allowed_after_dict,
                           call_args.required_length)

\* C26, amended: so it is when return_first_found is not set; when it is
\* set, one of these chains is returned, or none if there is none
C26_ReturnsAllOrFirstExplicitChain ==
    ChainsReturned =>
        LET chains == ExplicitChains(call_args.allowed_after_dict,
                                     call_args.required_length)
        IN IF call_args.return_first_found
           THEN /\ call_result.orderings \subseteq chains
                /\ Cardinality(call_result.orderings)
                       = (IF chains = {} THEN 0 ELSE 1)
           ELSE call_result.orderings = chains

\* knowing only i before j and k before j, no ordering of the three names is
\* returned
C26_Witness ==
    /\ ChainsReturned
    /\ ~call_args.return_first_found
    /\ call_args.required_length = 3
    /\ call_args.allowed_after_dict =
           [v \in Inames |-> IF v = "j" THEN {} ELSE {"j"}]
    /\ call_result.orderings = {}

\* several chains are returned, none of them through a name twice
C26_WitnessChains ==
    /\ ChainsReturned
    /\ ~call_args.return_first_found
    /\ call_args.required_length = 2
    /\ Cardinality(call_result.orderings) > 2
    /\ \E key \in DOMAIN call_args.allowed_after_dict :
           key \in call_args.allowed_after_dict[key]

\* C27 as stated: every ordering returned has exactly required_length
\* elements, whatever the dictionary and the required_length, 0 included
C27_OrderingsHaveRequiredLength ==
    pc = "ord_done" =>
        \A o \in call_result.orderings : Len(o) = call_args.required_length

\* the names of a dictionary: its keys and the names allowed after them
NamesOf(allowed_after_dict) ==
    DOMAIN allowed_after_dict
        \cup UNION {allowed_after_dict[key] : key \in DOMAIN allowed_after_dict}

NoNameTwice(prefix) == \A x, y \in DOMAIN prefix : x # y => prefix[x] # prefix[y]

\* C28: no call of _generate_orderings_starting_w_prefix has a start_prefix
\* with a name twice or longer than the number of distinct names of the
\* dictionary, and the function ends, by a return or by an exception
C28_OrderingsTerminate ==
    /\ [](pc \in {"ord_run", "ord_done", "raised"} =>
              /\ NoNameTwice(call_result.start_prefix)
              /\ \A x \in DOMAIN call_result.stack :
                     NoNameTwice(call_result.stack[x].start_prefix)
              /\ call_result.max_depth
                     <= Cardinality(NamesOf(call_args.allowed_after_dict)))
    /\ <>(pc \in {"ord_done", "raised"})

\* the function has returned for the cycle i, j, k, i with prefixes of up to
\* three names
C28_Witness ==
    /\ pc = "ord_done"
    /\ call_args.allowed_after_dict =
           [v \in Inames |->
               IF v = "i" THEN {"j"} ELSE IF v = "j" THEN {"k"} ELSE {"i"}]
    /\ ~call_args.return_first_found
    /\ call_result.max_depth = 3
    /\ Cardinality(call_result.orderings) = 3

\* the orderings the recursion returns call by call are those of the
\* recursion computed at once
OrderingsAgree ==
    (pc = "ord_done" /\ ~call_args.return_first_found
        /\ Closed(call_args.allowed_after_dict)) =>
        call_result.orderings =
            get_orderings_of_length_n(call_args.allowed_after_dict,
                                      call_args.required_length)

\* the inames of the loops that are open after the first n items, outermost
\* first, without the loops of the given inames
OpenLoopsAfter(items, n, ignored) ==
    SelectSeq(OpenLoops(items, n + 1), LAMBDA v : v \notin ignored)

\* the number of items the walk has been through
ItemsWalked == IF pc = "call" THEN 0 ELSE item_idx - 1

\* C29: at every step of the walk the lex point has 2d+1 entries, d the
\* number of open loops that are not ignored: non-negative integers at the
\* even positions (counted from 0) and the inames of the open loops,
\* outermost first, at the odd positions; there are d+1 emitted flags
C29_LexPointFollowsOpenLoops ==
    pc \in {"call", "walk", "pad"} =>
        LET open == OpenLoopsAfter(linearization_items, ItemsWalked,
                                  IgnoredInames)
            d == Len(open)
        IN /\ Len(next_insn_lex_pt) = 2 * d + 1
           /\ Len(stmt_added_since_prev_block_at_tier) = d + 1
           /\ \A x \in 0..d :
                  /\ IsLexInt(next_insn_lex_pt[2 * x + 1])
                  /\ next_insn_lex_pt[2 * x + 1].val >= 0
           /\ \A x \in 1..d :
                  /\ ~IsLexInt(next_insn_lex_pt[2 * x])
                  /\ next_insn_lex_pt[2 * x].iname = open[x]

\* the walk is inside an ignored loop and a loop that is not ignored, after
\* it closed a block that holds a statement
C29_Witness ==
    /\ pc = "walk"
    /\ IgnoredInames # {}
    /\ Len(OpenLoopsAfter(linearization_items, ItemsWalked, {})) = 2
    /\ Len(next_insn_lex_pt) = 3
    /\ next_insn_lex_pt[1].val = 1

\* before and after are distinct statements of one loop body, after first in
\* the linearization, and the dependency asks for equal values of the loop
\* variables they share
ReversedSameDependency(dep_set) ==
    LET insn_before == dep_set.statement_before.insn_id
        insn_after == dep_set.statement_after.insn_id
    IN /\ insn_before # insn_after
       /\ SameBody(linearization_items, insn_before, insn_after)
       /\ PosOf(insn_after) < PosOf(insn_before)
       /\ \E d \in dep_set.deps :
              /\ d.dep_type = "SAME"
              /\ d.inames = SharedInames(linearization_items, conc_inames,
                                         insn_before, insn_after)

\* C30: a dependency of two distinct statements of one loop body that asks
\* for equal values of their shared loop variables, with the after
\* statement first in the linearization, is reported violated, and the
\* check returns False
C30_ReversedOrderIsRejected ==
    /\ \A x \in DOMAIN satisfied :
           ReversedSameDependency(statement_pair_dep_sets[x]) => ~satisfied[x]
    /\ (/\ pc = "done"
        /\ \E x \in DOMAIN statement_pair_dep_sets :
               ReversedSameDependency(statement_pair_dep_sets[x]))
           => result = FALSE

\* a check of a satisfied dependency and of a reversed one inside a loop
\* has returned False
C30_Witness ==
    /\ pc = "done"
    /\ result = FALSE
    /\ Len(statement_pair_dep_sets) = 2
    /\ ReversedSameDependency(statement_pair_dep_sets[2])
    /\ satisfied = <<TRUE, FALSE>>
    /\ OpenLoops(linearization_items,
                 PosOf(statement_pair_dep_sets[2].statement_after.insn_id))
           # <<>>

====
